---------------------------- MODULE Spec2Model ----------------------------
(***************************************************************************)
(* FairValue: reconciled annual financials (TickerFinancials), forecast    *)
(* schedules (ForecastTickerFinancials), the DCF projector                 *)
(* (Stock.predict_fairvalue), the intrinsic value calculator               *)
(* (calc_intrinsic_value) and the date utilities (fill_dates).             *)
(*                                                                         *)
(* Numbers.  Python floats are modelled as exact rationals <<n, d>> in     *)
(* lowest terms with d > 0; rounding error of binary floating point is not *)
(* modelled.  Historic cash flows and share counts are integers.           *)
(*                                                                         *)
(* Dates.  A date string is <<year, month, day, padded>>; padded = 1 is    *)
(* the zero padded text strftime produces ("2018-01-01"), padded = 0 is a  *)
(* text strptime also accepts ("2018-1-1").  A datetime is                 *)
(* <<year, month, day, t>> with t = 0 for 00:00:00 and t = 1 for the       *)
(* end of the day (23:59:59.999999).                                       *)
(***************************************************************************)
EXTENDS Integers, Sequences, FiniteSets, TLC

VARIABLES financials, latest_shares_outstanding, constructed, call, ret,
          state_dict, workers

vars == <<financials, latest_shares_outstanding, constructed, call, ret,
          state_dict, workers>>

\* Longest series handed to a constructor or a utility.
MaxLen == 2

\* Largest number_of_years handed to predict_fairvalue.
MaxYears == 2

\* Longest date list handed to fill_dates.
MaxDates == 3
MaxRows == 3

\* Longest history handed to calc_historical_features.
MaxHistory == 4

---------------------------------------------------------------------------
(* Exact rational arithmetic standing for Python float arithmetic.         *)

Abs(x) == IF x < 0 THEN -x ELSE x

RECURSIVE GCD(_, _)
GCD(a, b) == IF b = 0 THEN a ELSE GCD(b, a % b)

\* the rational n/d in lowest terms, d # 0
Rat(n, d) ==
    LET g == GCD(Abs(n), Abs(d))
        s == IF d < 0 THEN -1 ELSE 1
    IN  <<(s * n) \div g, (s * d) \div g>>

FromInt(x) == <<x, 1>>
RAdd(a, b) == Rat(a[1] * b[2] + b[1] * a[2], a[2] * b[2])
RSub(a, b) == Rat(a[1] * b[2] - b[1] * a[2], a[2] * b[2])
RMul(a, b) == Rat(a[1] * b[1], a[2] * b[2])
RIsZero(a) == a[1] = 0
\* a / b, b # 0 (Python raises ZeroDivisionError when b = 0)
RDiv(a, b) == Rat(a[1] * b[2], a[2] * b[1])
RLt(a, b) == a[1] * b[2] < b[1] * a[2]
RLe(a, b) == a[1] * b[2] <= b[1] * a[2]
RMax(a, b) == IF RLt(a, b) THEN b ELSE a
RECURSIVE RPow(_, _)
RPow(a, k) == IF k = 0 THEN <<1, 1>> ELSE RMul(a, RPow(a, k - 1))

ROne == <<1, 1>>
RZero == <<0, 1>>

Min(a, b) == IF a < b THEN a ELSE b
Last(s) == s[Len(s)]
Prefix(s, n) == [i \in 1..Min(n, Len(s)) |-> s[i]]
Range(s) == {s[i] : i \in 1..Len(s)}

---------------------------------------------------------------------------
(* Dates: datetime.strptime / strftime with DATE_FORMAT "%Y-%m-%d".        *)

IsLeap(y) == (y % 4 = 0 /\ y % 100 # 0) \/ y % 400 = 0

\* calendar.monthrange(y, m)[1]
DaysInMonth(y, m) ==
    IF m = 2 THEN (IF IsLeap(y) THEN 29 ELSE 28)
    ELSE IF m \in {4, 6, 9, 11} THEN 30 ELSE 31

\* strptime succeeds on s (otherwise it raises ValueError)
Parses(s) == s[2] \in 1..12 /\ s[3] \in 1..DaysInMonth(s[1], s[2])

\* datetime.datetime.strptime(s, DATE_FORMAT): midnight of that day
strptime(s) == <<s[1], s[2], s[3], 0>>

\* dt.strftime(DATE_FORMAT): always the zero padded text
strftime(dt) == <<dt[1], dt[2], dt[3], 1>>

\* dt1 < dt2 on datetimes
DtLt(a, b) ==
    \/ a[1] < b[1]
    \/ a[1] = b[1] /\ a[2] < b[2]
    \/ a[1] = b[1] /\ a[2] = b[2] /\ a[3] < b[3]
    \/ a[1] = b[1] /\ a[2] = b[2] /\ a[3] = b[3] /\ a[4] < b[4]

DtLe(a, b) == a = b \/ DtLt(a, b)

YearsOf(dates) == [i \in 1..Len(dates) |-> strptime(dates[i])[1]]

---------------------------------------------------------------------------
(* TickerFinancials (models/financials.py).                                *)
(* kwargs: [present, operating_cashflows, capital_expenditures,            *)
(* free_cashflows, year_end_dates, shares_outstanding]; "present" holds    *)
(* the names of the optional series the caller supplied, an absent series  *)
(* is None in the constructed object.                                      *)

NoFinancials ==
    [present |-> {}, operating_cashflows |-> <<>>,
     capital_expenditures |-> <<>>, free_cashflows |-> <<>>,
     year_end_dates |-> <<>>, shares_outstanding |-> <<>>, none |-> TRUE]

\* len(years) != len(set(years))
tf_duplicate_years_off(dates) == FALSE

tf_duplicate_years(dates) ==
    Len(dates) # Cardinality(Range(YearsOf(dates)))

\* lengths of the fields the "before" validator compares
tf_required_fields == {"operating_cashflows", "capital_expenditures",
                       "year_end_dates", "shares_outstanding"}

tf_lengths(kw) ==
    {Len(kw[f]) : f \in (tf_required_fields \cap
                    (kw.present \cup {"year_end_dates", "shares_outstanding"}))}

\* @model_validator(mode="before") of TickerFinancials: TRUE when it raises
tf_validate_data_fails(kw) ==
    \/ /\ "free_cashflows" \notin kw.present
       /\ \/ "operating_cashflows" \notin kw.present
          \/ "capital_expenditures" \notin kw.present
    \/ Cardinality(tf_lengths(kw)) # 1
    \/ \E i \in 1..Len(kw.year_end_dates) : ~Parses(kw.year_end_dates[i])
    \/ tf_duplicate_years(kw.year_end_dates)

\* field constraints: capital_expenditures NonNegFloat, shares NonNegInt
tf_fields_fail(kw) ==
    \/ /\ "capital_expenditures" \in kw.present
       /\ \E i \in 1..Len(kw.capital_expenditures) : kw.capital_expenditures[i] < 0
    \/ \E i \in 1..Len(kw.shares_outstanding) : kw.shares_outstanding[i] < 0

tf_postprocessing_added(kw) ==
    IF "free_cashflows" \in kw.present
    THEN kw.free_cashflows
    ELSE [i \in 1..Min(Len(kw.operating_cashflows), Len(kw.capital_expenditures))
            |-> kw.operating_cashflows[i] + kw.capital_expenditures[i]]

\* @model_validator(mode="after"): free_cashflows from the zip of the two series
tf_postprocessing(kw) ==
    IF "free_cashflows" \in kw.present
    THEN kw.free_cashflows
    ELSE [i \in 1..Min(Len(kw.operating_cashflows), Len(kw.capital_expenditures))
            |-> kw.operating_cashflows[i] - kw.capital_expenditures[i]]

\* TickerFinancials(**kw): [exc, obj]
TickerFinancials(kw) ==
    IF tf_validate_data_fails(kw) \/ tf_fields_fail(kw)
    THEN [exc |-> "ValidationError", obj |-> NoFinancials]
    ELSE [exc |-> "none",
          obj |-> [present |-> kw.present \cup {"free_cashflows"},
                   operating_cashflows |->
                       IF "operating_cashflows" \in kw.present
                       THEN kw.operating_cashflows ELSE <<>>,
                   capital_expenditures |->
                       IF "capital_expenditures" \in kw.present
                       THEN kw.capital_expenditures ELSE <<>>,
                   free_cashflows |-> tf_postprocessing(kw),
                   year_end_dates |-> kw.year_end_dates,
                   shares_outstanding |-> kw.shares_outstanding,
                   none |-> FALSE]]

---------------------------------------------------------------------------
(* ForecastTickerFinancials (models/financials.py).                        *)
(* kwargs: [year_end_dates, free_cashflows, discount_rates,                *)
(* shares_outstanding, terminal_growth]; cash flows and rates are          *)
(* rationals.                                                              *)

NoForecast ==
    [year_end_dates |-> <<>>, free_cashflows |-> <<>>, discount_rates |-> <<>>,
     shares_outstanding |-> 0, terminal_growth |-> RZero, none |-> TRUE]

ftf_lengths(kw) ==
    {Len(kw.year_end_dates), Len(kw.free_cashflows), Len(kw.discount_rates)}

ftf_terminal_growth_rejected_strict(kw) ==
    RLt(Last(kw.discount_rates), kw.terminal_growth)

\* the terminal growth comparison of the "before" validator
ftf_terminal_growth_rejected(kw) ==
    RLe(Last(kw.discount_rates), kw.terminal_growth)

\* field constraints: shares_outstanding PositiveInt, terminal_growth NonNegFloat
ftf_fields_fail(kw) ==
    \/ kw.shares_outstanding <= 0
    \/ RLt(kw.terminal_growth, RZero)

\* ForecastTickerFinancials(**kw): [exc, obj]
ForecastTickerFinancials(kw) ==
    LET fail(e) == [exc |-> e, obj |-> NoForecast] IN
    IF Cardinality(ftf_lengths(kw)) # 1 THEN fail("ValidationError")
    ELSE IF \E i \in 1..Len(kw.year_end_dates) : ~Parses(kw.year_end_dates[i])
    THEN fail("ValidationError")
    ELSE IF tf_duplicate_years(kw.year_end_dates)
    THEN fail("ValidationError")
    ELSE IF Len(kw.discount_rates) = 0 THEN fail("IndexError")
    ELSE IF ftf_terminal_growth_rejected(kw) THEN fail("ValidationError")
    ELSE IF ftf_fields_fail(kw) THEN fail("ValidationError")
    ELSE [exc |-> "none",
          obj |-> [year_end_dates |-> kw.year_end_dates,
                   free_cashflows |-> kw.free_cashflows,
                   discount_rates |-> kw.discount_rates,
                   shares_outstanding |-> kw.shares_outstanding,
                   terminal_growth |-> kw.terminal_growth,
                   none |-> FALSE]]

---------------------------------------------------------------------------
(* Inputs.  A series of length n is the first n entries of a pattern, so   *)
(* that every length up to MaxLen occurs for every series independently.   *)

Series(pattern(_), n) == [i \in 1..n |-> pattern(i)]

AnnualDates(i) == <<2017 + i, 12, 31, 1>>
SameYearDates(i) == <<2018 + ((i - 1) \div 2), i, 15, 1>>
NoSuchDayDates(i) == <<2017 + i, 2, 29, 1>>
GapDates(i) == <<2016 + 2 * i, 6, 30, 1>>
\* one calendar year is skipped after the second date
OneGapDates(i) == <<IF i < 3 THEN 2017 + i ELSE 2018 + i, 12, 31, 1>>

DateSeries(n) ==
    {Series(AnnualDates, n), Series(SameYearDates, n), Series(NoSuchDayDates, n)}

CashUp(i) == 8 + 2 * i
CashDown(i) == 5 - 4 * i
CashFlat(i) == 5
CashThroughMinusOne(i) == i - 3
CashSeries(n) == {Series(CashUp, n), Series(CashDown, n)}

CapexFlat(i) == 1
CapexFalling(i) == 1 - i
CapexSeries(n) == {Series(CapexFlat, n), Series(CapexFalling, n)}

SharesFlat(i) == 100
SharesFromZero(i) == i - 1
SharesFalling(i) == 1 - i
SharesRising(i) == 100 * i
ShareSeries(n) ==
    {Series(SharesFlat, n), Series(SharesFromZero, n), Series(SharesFalling, n)}

Lens == 0..MaxLen

\* the series a caller may supply for an optional field
OptionalSeries(name, present, series(_)) ==
    IF name \in present THEN UNION {series(n) : n \in Lens} ELSE {<<>>}

Rates == {<<0, 1>>, <<1, 2>>, <<1, 1>>}
TerminalGrowths == {<<-1, 2>>, <<0, 1>>, <<1, 2>>, <<1, 1>>}
Growths == {<<-1, 2>>, <<0, 1>>, <<1, 2>>}

RatSeq(s) == [i \in 1..Len(s) |-> FromInt(s[i])]
ConstRates(r, n) == [i \in 1..n |-> r]
\* rates falling from 1 by halves: 1, 1/2, 0, 0, ...
FallingRate(i) == IF i <= 2 THEN Rat(3 - i, 2) ELSE RZero
RateSeries(n) == {ConstRates(r, n) : r \in Rates} \cup {Series(FallingRate, n)}

ForecastKwargs ==
    {[year_end_dates |-> d, free_cashflows |-> RatSeq(f), discount_rates |-> r,
      shares_outstanding |-> s, terminal_growth |-> g] :
        d \in UNION {{Series(AnnualDates, n), Series(SameYearDates, n)} : n \in Lens},
        f \in UNION {CashSeries(n) : n \in Lens},
        r \in UNION {RateSeries(n) : n \in Lens},
        s \in {-1, 0, 1, 3},
        g \in TerminalGrowths}

---------------------------------------------------------------------------
(* Specification of the two constructors.  Every behaviour is one call:    *)
(* the constructors are pure, a second call would see the same state.      *)

NoCall == [op |-> "none", args |-> <<>>]
NoRet == [exc |-> "none", val |-> <<>>]

InitStock ==
    /\ financials = NoFinancials
    /\ latest_shares_outstanding = 0
    /\ constructed = FALSE

\* the descriptions of the lookup table of states of incorporation
StateNames == {"DE", "Cayman Islands"}

\* state_dict = fetch_state_dict() at import: a table from the description
\* of the state of incorporation to whether the company is domestic
fetch_state_dict == [s \in StateNames |-> s = "DE"]

\* no company is being processed
NoWorkers == <<>>

Init ==
    /\ InitStock
    /\ call = NoCall
    /\ ret = NoRet
    /\ state_dict = fetch_state_dict
    /\ workers = NoWorkers

\* every choice of supplied series, each with its own length
ConstructTickerFinancials ==
    /\ call = NoCall
    /\ \E p \in SUBSET {"operating_cashflows", "capital_expenditures", "free_cashflows"} :
         \E o \in OptionalSeries("operating_cashflows", p, CashSeries),
            c \in OptionalSeries("capital_expenditures", p, CapexSeries),
            f \in OptionalSeries("free_cashflows", p, CashSeries),
            d \in UNION {DateSeries(n) : n \in Lens},
            s \in UNION {ShareSeries(n) : n \in Lens} :
              LET kw == [present |-> p, operating_cashflows |-> o,
                         capital_expenditures |-> c, free_cashflows |-> f,
                         year_end_dates |-> d, shares_outstanding |-> s]
                  r == TickerFinancials(kw)
              IN
              /\ call' = [op |-> "TickerFinancials", args |-> kw]
              /\ ret' = [exc |-> r.exc, val |-> r.obj]
              /\ UNCHANGED <<financials, latest_shares_outstanding, constructed, state_dict, workers>>

ConstructForecastTickerFinancials ==
    /\ call = NoCall
    /\ \E kw \in ForecastKwargs :
            LET r == ForecastTickerFinancials(kw) IN
            /\ call' = [op |-> "ForecastTickerFinancials", args |-> kw]
            /\ ret' = [exc |-> r.exc, val |-> r.obj]
            /\ UNCHANGED <<financials, latest_shares_outstanding, constructed, state_dict, workers>>

NextFinancials == ConstructTickerFinancials \/ ConstructForecastTickerFinancials

SpecFinancials == Init /\ [][NextFinancials]_vars

---------------------------------------------------------------------------
(* Properties of the constructors.                                         *)

TFCall == call.op = "TickerFinancials"
TFBuilt == TFCall /\ ret.exc = "none"
FTFCall == call.op = "ForecastTickerFinancials"

\* C1: a TickerFinancials built from operating_cashflows and
\* capital_expenditures without free_cashflows has free_cashflows of the
\* inputs' length with free_cashflows[i] = operating_cashflows[i] -
\* capital_expenditures[i] at every index.
C1_FreeCashflowDerived ==
    (/\ TFBuilt
     /\ {"operating_cashflows", "capital_expenditures"} \subseteq call.args.present
     /\ "free_cashflows" \notin call.args.present)
    => /\ Len(ret.val.free_cashflows) = Len(call.args.operating_cashflows)
       /\ Len(ret.val.free_cashflows) = Len(call.args.capital_expenditures)
       /\ \A i \in 1..Len(ret.val.free_cashflows) :
            ret.val.free_cashflows[i] =
              call.args.operating_cashflows[i] - call.args.capital_expenditures[i]

C1_Witness ==
    /\ TFBuilt
    /\ {"operating_cashflows", "capital_expenditures"} \subseteq call.args.present
    /\ "free_cashflows" \notin call.args.present
    /\ Len(ret.val.free_cashflows) >= 2
    /\ \E i \in 1..Len(ret.val.free_cashflows) : call.args.capital_expenditures[i] # 0

\* the series are equal in length and not empty, the dates are dates of
\* distinct years, the share count is positive
FTFOtherwiseValid(kw) ==
    /\ Cardinality(ftf_lengths(kw)) = 1
    /\ Len(kw.discount_rates) >= 1
    /\ \A i \in 1..Len(kw.year_end_dates) : Parses(kw.year_end_dates[i])
    /\ \A i, j \in 1..Len(kw.year_end_dates) :
         i # j => kw.year_end_dates[i][1] # kw.year_end_dates[j][1]
    /\ kw.shares_outstanding > 0

\* C2 as stated: terminal_growth >= discount_rates[-1] raises a validation
\* error, and any terminal_growth strictly below discount_rates[-1] is
\* accepted when the rest of the schedule is valid.
C2_AsStated ==
    (FTFCall /\ Len(call.args.discount_rates) >= 1)
    => /\ RLe(Last(call.args.discount_rates), call.args.terminal_growth)
            => ret.exc = "ValidationError"
       /\ (/\ FTFOtherwiseValid(call.args)
           /\ RLt(call.args.terminal_growth, Last(call.args.discount_rates)))
            => ret.exc = "none"

\* C2 amended: terminal_growth >= discount_rates[-1] raises a validation
\* error, and a terminal_growth that is not negative and strictly below
\* discount_rates[-1] is accepted when the rest of the schedule is valid.
C2_TerminalGuard ==
    (FTFCall /\ Len(call.args.discount_rates) >= 1)
    => /\ RLe(Last(call.args.discount_rates), call.args.terminal_growth)
            => ret.exc = "ValidationError"
       /\ (/\ FTFOtherwiseValid(call.args)
           /\ RLe(RZero, call.args.terminal_growth)
           /\ RLt(call.args.terminal_growth, Last(call.args.discount_rates)))
            => /\ ret.exc = "none"
               /\ ret.val.terminal_growth = call.args.terminal_growth

\* a valid schedule whose terminal growth equals its last discount rate
C2_Witness ==
    /\ FTFCall
    /\ FTFOtherwiseValid(call.args)
    /\ call.args.terminal_growth = Last(call.args.discount_rates)
    /\ RLt(RZero, call.args.terminal_growth)
    /\ ret.exc = "ValidationError"

\* the lengths of the series a constructed TickerFinancials holds
TFPresentLens(obj) ==
    {Len(obj.year_end_dates), Len(obj.shares_outstanding), Len(obj.free_cashflows)}
    \cup (IF "operating_cashflows" \in obj.present
          THEN {Len(obj.operating_cashflows)} ELSE {})
    \cup (IF "capital_expenditures" \in obj.present
          THEN {Len(obj.capital_expenditures)} ELSE {})

\* the lengths of the series the caller supplied
TFSuppliedLens(kw) ==
    {Len(kw.year_end_dates), Len(kw.shares_outstanding)}
    \cup {Len(kw[f]) : f \in kw.present}

\* C8 as stated: in a constructed TickerFinancials all present series have
\* one length, and a call whose supplied series differ in length fails.
C8_AsStated ==
    TFCall =>
      /\ ret.exc = "none" => Cardinality(TFPresentLens(ret.val)) = 1
      /\ Cardinality(TFSuppliedLens(call.args)) > 1 => ret.exc = "ValidationError"

\* C9: in a constructed TickerFinancials no two year_end_dates are of the
\* same calendar year, and a call with two dates of one year fails.
C9_UniqueYears ==
    TFCall =>
      /\ ret.exc = "none"
            => \A i, j \in 1..Len(ret.val.year_end_dates) :
                 i # j => ret.val.year_end_dates[i][1] # ret.val.year_end_dates[j][1]
      /\ (\E i, j \in 1..Len(call.args.year_end_dates) :
            i # j /\ call.args.year_end_dates[i][1] = call.args.year_end_dates[j][1])
            => ret.exc = "ValidationError"

\* a call that is valid but for two dates of one calendar year
C9_Witness ==
    /\ TFCall
    /\ ret.exc = "ValidationError"
    /\ Len(call.args.year_end_dates) = 2
    /\ call.args.year_end_dates[1][1] = call.args.year_end_dates[2][1]
    /\ call.args.year_end_dates[1] # call.args.year_end_dates[2]
    /\ ~tf_fields_fail(call.args)
    /\ "free_cashflows" \in call.args.present
    /\ Cardinality(TFSuppliedLens(call.args)) = 1

---------------------------------------------------------------------------
(* calc_intrinsic_value (_stock.py).                                       *)

\* the value returned when the call raises
NoValue ==
    [shares_outstanding |-> 0, company_value |-> RZero,
     intrinsic_value |-> RZero, intrinsic_is_nan |-> FALSE]

\* if terminal_growth > discount[-1]
terminal_growth_check(terminal_growth, discount) ==
    RLt(Last(discount), terminal_growth)

discounted_fcf_unfloored(free_cashflows, discount, i) ==
    RDiv(free_cashflows[i], RPow(RAdd(ROne, discount[i]), i))

\* max(free_cashflows[i] / (1 + discount[i]) ** (i + 1), 0), i counted from 1
discounted_fcf(free_cashflows, discount, i) ==
    RMax(RDiv(free_cashflows[i], RPow(RAdd(ROne, discount[i]), i)), RZero)

\* present_value_fcf after the first n rounds of the loop
RECURSIVE present_value_fcf(_, _, _)
present_value_fcf(free_cashflows, discount, n) ==
    IF n = 0 THEN RZero
    ELSE RAdd(present_value_fcf(free_cashflows, discount, n - 1),
              discounted_fcf(free_cashflows, discount, n))

\* the first round of the loop that raises, 0 when none does
loop_failure(free_cashflows, discount) ==
    LET bad == {i \in 1..Len(free_cashflows) :
                  i > Len(discount) \/ RIsZero(RAdd(ROne, discount[i]))}
    IN  IF bad = {} THEN 0 ELSE CHOOSE i \in bad : \A j \in bad : i <= j

terminal_value(free_cashflows, discount, terminal_growth) ==
    RDiv(RMul(Last(free_cashflows), RAdd(ROne, terminal_growth)),
         RSub(Last(discount), terminal_growth))

present_value_terminal(free_cashflows, discount, terminal_growth) ==
    RDiv(terminal_value(free_cashflows, discount, terminal_growth),
         RPow(RAdd(ROne, Last(discount)), Len(free_cashflows)))

\* np.where(shares_outstanding > 0, company_value / shares_outstanding, nan):
\* both branches are evaluated before np.where chooses, and the division of
\* Python numbers by 0 raises
intrinsic_value_where(company_value, shares_outstanding) ==
    IF shares_outstanding = 0
    THEN [exc |-> "ZeroDivisionError", value |-> RZero, is_nan |-> FALSE]
    ELSE [exc |-> "none",
          value |-> IF shares_outstanding > 0
                    THEN RDiv(company_value, FromInt(shares_outstanding))
                    ELSE RZero,
          is_nan |-> shares_outstanding < 0]

\* calc_intrinsic_value(...): [exc, val]
calc_intrinsic_value(free_cashflows, discount, terminal_growth, shares_outstanding) ==
    LET fail(e) == [exc |-> e, val |-> NoValue]
        k == loop_failure(free_cashflows, discount)
    IN
    IF Len(discount) = 0 THEN fail("IndexError")
    ELSE IF terminal_growth_check(terminal_growth, discount)
    THEN fail("FairValueException")
    ELSE IF k # 0
    THEN fail(IF k > Len(discount) THEN "IndexError" ELSE "ZeroDivisionError")
    ELSE IF Len(free_cashflows) = 0 THEN fail("IndexError")
    ELSE IF RIsZero(RSub(Last(discount), terminal_growth))
    THEN fail("ZeroDivisionError")
    ELSE IF RIsZero(RAdd(ROne, Last(discount))) THEN fail("ZeroDivisionError")
    ELSE
      LET company_value ==
              RAdd(present_value_fcf(free_cashflows, discount, Len(free_cashflows)),
                   present_value_terminal(free_cashflows, discount, terminal_growth))
          iv == intrinsic_value_where(company_value, shares_outstanding)
      IN  IF iv.exc # "none" THEN fail(iv.exc)
          ELSE [exc |-> "none",
                val |-> [shares_outstanding |-> shares_outstanding,
                         company_value |-> company_value,
                         intrinsic_value |-> iv.value,
                         intrinsic_is_nan |-> iv.is_nan]]

\* discount rates of a direct call
CalcRates == Rates \cup {<<-1, 2>>}
CalcRateSeries(n) ==
    {ConstRates(r, n) : r \in CalcRates} \cup {Series(FallingRate, n)}

CalcArgs ==
    {[free_cashflows |-> RatSeq(f), discount |-> r,
      terminal_growth |-> g, shares_outstanding |-> s] :
        f \in UNION {CashSeries(n) : n \in Lens},
        r \in UNION {CalcRateSeries(n) : n \in Lens},
        g \in TerminalGrowths,
        s \in {-2, 0, 1, 3}}

CallCalcIntrinsicValue ==
    /\ call = NoCall
    /\ \E a \in CalcArgs :
            LET r == calc_intrinsic_value(a.free_cashflows, a.discount,
                                          a.terminal_growth, a.shares_outstanding) IN
            /\ call' = [op |-> "calc_intrinsic_value", args |-> a]
            /\ ret' = [exc |-> r.exc, val |-> r.val]
            /\ UNCHANGED <<financials, latest_shares_outstanding, constructed, state_dict, workers>>

NextCalc == CallCalcIntrinsicValue

SpecCalc == Init /\ [][NextCalc]_vars

---------------------------------------------------------------------------
(* Properties of calc_intrinsic_value.                                     *)

CalcCall == call.op = "calc_intrinsic_value"

\* a forecast of length N >= 1 with one rate per year, terminal growth below
\* the last rate
CalcValidForecast(a) ==
    /\ Len(a.free_cashflows) >= 1
    /\ Len(a.discount) = Len(a.free_cashflows)
    /\ RLt(a.terminal_growth, Last(a.discount))

\* pv_i = max(fcf_i / (1 + r_i)^i, 0)
PV(a, i) ==
    LET q == RDiv(a.free_cashflows[i], RPow(RAdd(ROne, a.discount[i]), i))
    IN  IF RLt(q, RZero) THEN RZero ELSE q

RECURSIVE SumPV(_, _)
SumPV(a, S) ==
    IF S = {} THEN RZero
    ELSE LET i == CHOOSE x \in S : TRUE IN RAdd(PV(a, i), SumPV(a, S \ {i}))

\* TV / (1 + r_N)^N with TV = fcf_N * (1 + tg) / (r_N - tg)
PVTerminal(a) ==
    LET N == Len(a.free_cashflows)
        TV == RDiv(RMul(a.free_cashflows[N], RAdd(ROne, a.terminal_growth)),
                   RSub(a.discount[N], a.terminal_growth))
    IN  RDiv(TV, RPow(RAdd(ROne, a.discount[N]), N))

\* C5: for a forecast of length N >= 1 with terminal_growth < r_N (and the
\* positive share count the calculator takes) calc_intrinsic_value returns
\* company_value = sum of max(fcf_i / (1 + r_i)^i, 0) over i = 1..N
\* plus TV / (1 + r_N)^N, TV = fcf_N * (1 + terminal_growth) / (r_N - terminal_growth).
C5_CompanyValue ==
    (CalcCall /\ CalcValidForecast(call.args) /\ call.args.shares_outstanding > 0)
    => /\ ret.exc = "none"
       /\ ret.val.company_value =
            RAdd(SumPV(call.args, 1..Len(call.args.free_cashflows)),
                 PVTerminal(call.args))

\* a two year forecast with a negative year, valued
C5_Witness ==
    /\ CalcCall
    /\ CalcValidForecast(call.args)
    /\ call.args.shares_outstanding > 0
    /\ Len(call.args.free_cashflows) >= 2
    /\ \E i \in 1..Len(call.args.free_cashflows) :
         RLt(call.args.free_cashflows[i], RZero)
    /\ ret.exc = "none"

\* C6 as stated: whenever terminal_growth >= discount[-1], equality
\* included, calc_intrinsic_value fails with FairValueException.
C6_AsStated ==
    (/\ CalcCall
     /\ Len(call.args.free_cashflows) >= 1
     /\ Len(call.args.discount) = Len(call.args.free_cashflows)
     /\ RLe(Last(call.args.discount), call.args.terminal_growth))
    => ret.exc = "FairValueException"

\* C7 as stated: intrinsic_value = company_value / shares_outstanding when
\* shares_outstanding > 0, and not-a-number without raising otherwise.
C7_AsStated ==
    (CalcCall /\ CalcValidForecast(call.args))
    => /\ ret.exc = "none"
       /\ IF call.args.shares_outstanding > 0
          THEN /\ ~ret.val.intrinsic_is_nan
               /\ ret.val.intrinsic_value =
                    RDiv(ret.val.company_value, FromInt(call.args.shares_outstanding))
          ELSE ret.val.intrinsic_is_nan

---------------------------------------------------------------------------
(* latest_index and fetch_latest_financials (models/financials.py).        *)

\* date_to_datetime: the end of that day
date_to_datetime(date) == <<date[1], date[2], date[3], 1>>

latest_index_inclusive(date, year_end_dates) ==
    LET later == {i \in 1..Len(year_end_dates) :
                    DtLe(date, strptime(year_end_dates[i]))}
        first == CHOOSE i \in later : \A j \in later : i <= j
    IN  IF Len(year_end_dates) = 0 THEN [exc |-> "FairValueException", n |-> 0]
        ELSE IF later = {} THEN [exc |-> "none", n |-> Len(year_end_dates)]
        ELSE IF first = 1 THEN [exc |-> "FairValueException", n |-> 0]
        ELSE [exc |-> "none", n |-> first - 1]

\* latest_index(date, year_end_dates) for a datetime date: [exc, n]
latest_index(date, year_end_dates) ==
    LET later == {i \in 1..Len(year_end_dates) :
                    DtLt(date, strptime(year_end_dates[i]))}
        first == CHOOSE i \in later : \A j \in later : i <= j
    IN  IF Len(year_end_dates) = 0 THEN [exc |-> "FairValueException", n |-> 0]
        ELSE IF later = {} THEN [exc |-> "none", n |-> Len(year_end_dates)]
        ELSE IF first = 1 THEN [exc |-> "FairValueException", n |-> 0]
        ELSE [exc |-> "none", n |-> first - 1]

\* the slices financials.<series>[:n] and the TickerFinancials built from them
latest_slices(fin, li) ==
    LET kept == {f \in {"free_cashflows", "capital_expenditures", "operating_cashflows"} :
                    f \in fin.present /\ Len(fin[f]) > 0}
    IN  IF li.exc # "none" THEN [exc |-> li.exc, obj |-> NoFinancials]
        ELSE TickerFinancials(
                [present |-> kept,
                 operating_cashflows |-> Prefix(fin.operating_cashflows, li.n),
                 capital_expenditures |-> Prefix(fin.capital_expenditures, li.n),
                 free_cashflows |-> Prefix(fin.free_cashflows, li.n),
                 year_end_dates |-> Prefix(fin.year_end_dates, li.n),
                 shares_outstanding |-> Prefix(fin.shares_outstanding, li.n)])

\* fetch_latest_financials(date, financials) with no shares_outstanding
\* argument: [exc, obj].  kind tells what date is: "str" for a text, "date"
\* for a datetime.date or datetime.datetime, "none" for None; a text gets
\* the time 23:59:59 and a date the time 23:59:59.999999, the end of the day
fetch_latest_financials_as(kind, date, fin) ==
    LET fail(e) == [exc |-> e, obj |-> NoFinancials] IN
    IF fin.none THEN fail("ValueError")
    ELSE IF Len(fin.free_cashflows) = 0 THEN fail("FairValueException")
    ELSE IF kind = "none" THEN fail("ValueError")
    ELSE IF kind = "str" /\ ~Parses(date) THEN fail("ValueError")
    ELSE latest_slices(fin, latest_index(date_to_datetime(date), fin.year_end_dates))

\* the call predict_fairvalue makes, date being a datetime
fetch_latest_financials(date, fin) == fetch_latest_financials_as("date", date, fin)

---------------------------------------------------------------------------
(* check_for_missing_dates (utils.py) and calc_historical_features         *)
(* (_stock.py).                                                            *)

\* sorted(years) of a set of years
RECURSIVE sorted_years(_)
sorted_years(years) ==
    IF years = {} THEN <<>>
    ELSE LET least == CHOOSE y \in years : \A z \in years : y <= z
         IN  <<least>> \o sorted_years(years \ {least})

check_for_missing_dates_in_order(date_strings) ==
    LET years == YearsOf(date_strings)
        all_years == years[1]..Last(years)
    IN  IF Len(date_strings) = 0 THEN [exc |-> "none", val |-> <<>>]
        ELSE IF \E i \in 1..Len(date_strings) : ~Parses(date_strings[i])
        THEN [exc |-> "ValueError", val |-> <<>>]
        ELSE [exc |-> "none", val |-> sorted_years(all_years \ Range(years))]

\* check_for_missing_dates(date_strings): [exc, val]
check_for_missing_dates(date_strings) ==
    LET years == YearsOf(date_strings)
        min_year == CHOOSE y \in Range(years) : \A z \in Range(years) : y <= z
        max_year == CHOOSE y \in Range(years) : \A z \in Range(years) : z <= y
        all_years == min_year..max_year
    IN  IF Len(date_strings) = 0 THEN [exc |-> "none", val |-> <<>>]
        ELSE IF \E i \in 1..Len(date_strings) : ~Parses(date_strings[i])
        THEN [exc |-> "ValueError", val |-> <<>>]
        ELSE [exc |-> "none", val |-> sorted_years(all_years \ Range(years))]

RECURSIVE SumSeq(_)
SumSeq(s) == IF Len(s) = 0 THEN 0 ELSE s[1] + SumSeq(Tail(s))

\* s[from:to] of Python for 0 <= from, with to counted from the front
Slice(s, from, to) ==
    [i \in 1..(IF Min(to, Len(s)) > from THEN Min(to, Len(s)) - from ELSE 0)
        |-> s[from + i]]

\* numpy's nan as a correlation and as a median
NaNCorr == [nan |-> TRUE, sign |-> 0, square |-> RZero]
NaN == [nan |-> TRUE, value |-> RZero]

\* np.corrcoef(x, y)[0, 1] of two lists of one length: the sign of the
\* covariance and the square of the coefficient, nan when a variance is 0
\* (constant or too short lists)
corrcoef(x, y) ==
    LET n == Len(x)
        c == n * SumSeq([i \in 1..n |-> x[i] * y[i]]) - SumSeq(x) * SumSeq(y)
        vx == n * SumSeq([i \in 1..n |-> x[i] * x[i]]) - SumSeq(x) * SumSeq(x)
        vy == n * SumSeq([i \in 1..n |-> y[i] * y[i]]) - SumSeq(y) * SumSeq(y)
    IN  IF vx * vy = 0 THEN NaNCorr
        ELSE [nan |-> FALSE,
              sign |-> IF c < 0 THEN -1 ELSE IF c > 0 THEN 1 ELSE 0,
              square |-> Rat(c * c, vx * vy)]

\* np.median(xs) of a list of rationals, nan for the empty list
median(xs) ==
    LET n == Len(xs)
        rank(i) == 1 + Cardinality({j \in 1..n :
                        RLt(xs[j], xs[i]) \/ (xs[j] = xs[i] /\ j < i)})
        at(k) == xs[CHOOSE i \in 1..n : rank(i) = k]
    IN  IF n = 0 THEN NaN
        ELSE [nan |-> FALSE,
              value |-> IF n % 2 = 1 THEN at((n + 1) \div 2)
                        ELSE RDiv(RAdd(at(n \div 2), at(n \div 2 + 1)), FromInt(2))]

\* [t1 / (t0 + 1) - 1 for t0, t1 in zip(a, b)]
fcf_growth(a, b) ==
    [i \in 1..Min(Len(a), Len(b)) |->
        RSub(RDiv(FromInt(b[i]), FromInt(a[i] + 1)), ROne)]

\* the division t1 / (t0 + 1) fails for some pair of zip(a, b)
fcf_growth_fails(a, b) ==
    \E i \in 1..Min(Len(a), Len(b)) : a[i] + 1 = 0

NoFeatures ==
    [keys |-> {}, fcf_autocorrelation |-> NaNCorr,
     median_fcf_growth_all |-> NaN, median_fcf_growth_l4y |-> NaN]

\* the three features of the free cash flows fcf: [exc, val]
historical_features_of(fcf) ==
    LET n == Len(fcf)
        before == Slice(fcf, 0, n - 1)
        after == Slice(fcf, 1, n)
        before_l4y == Slice(fcf, IF n > 4 THEN n - 4 ELSE 0, n - 1)
        after_l4y == Slice(fcf, IF n > 3 THEN n - 3 ELSE 0, n)
    IN  IF fcf_growth_fails(before, after) \/ fcf_growth_fails(before_l4y, after_l4y)
        THEN [exc |-> "ZeroDivisionError", val |-> NoFeatures]
        ELSE [exc |-> "none",
              val |-> [keys |-> {"fcf_autocorrelation", "median_fcf_growth_all",
                                 "median_fcf_growth_l4y"},
                       fcf_autocorrelation |-> corrcoef(before, after),
                       median_fcf_growth_all |-> median(fcf_growth(before, after)),
                       median_fcf_growth_l4y |->
                           median(fcf_growth(before_l4y, after_l4y))]]

calc_historical_features_of_any_length(fin) ==
    IF Len(check_for_missing_dates(fin.year_end_dates).val) > 0
    THEN [exc |-> "none", val |-> NoFeatures]
    ELSE historical_features_of(fin.free_cashflows)

\* calc_historical_features(financials): [exc, val]; financials may be None
calc_historical_features(fin) ==
    IF fin.none THEN [exc |-> "AttributeError", val |-> NoFeatures]
    ELSE IF Len(check_for_missing_dates(fin.year_end_dates).val) > 0
    THEN [exc |-> "none", val |-> NoFeatures]
    ELSE IF Len(fin.year_end_dates) < 4 THEN [exc |-> "none", val |-> NoFeatures]
    ELSE historical_features_of(fin.free_cashflows)

---------------------------------------------------------------------------
(* Stock (_stock.py), built from user defined data.                        *)

\* Stock.__init__ with sec_filing = None: [exc, financials, latest_shares_outstanding].
\* a.shares_given = FALSE stands for latest_shares_outstanding = None,
\* a.financials_given = FALSE for historical_financials = None.
StockInit(a) ==
    LET fail(e) == [exc |-> e, financials |-> NoFinancials,
                    latest_shares_outstanding |-> 0]
        tf == TickerFinancials(a.historical_financials)
        fin == IF a.financials_given THEN tf.obj ELSE NoFinancials
    IN  IF ~a.ticker_given THEN fail("FairValueException")
        ELSE IF ~a.financials_given /\ ~a.shares_given THEN fail("FairValueException")
        ELSE IF a.financials_given /\ tf.exc # "none" THEN fail(tf.exc)
        ELSE IF a.shares_given
        THEN [exc |-> "none", financials |-> fin,
              latest_shares_outstanding |-> a.latest_shares_outstanding]
        ELSE IF Len(fin.shares_outstanding) = 0 THEN fail("IndexError")
        ELSE [exc |-> "none", financials |-> fin,
              latest_shares_outstanding |-> Last(fin.shares_outstanding)]

\* generate_future_dates(date, n) (utils.py)
generate_future_dates(date, n) ==
    [i \in 1..n |->
        IF date[2] = 2 /\ date[3] = 29 /\ ~IsLeap(date[1] + i)
        THEN <<date[1] + i, 2, 28, 1>>
        ELSE <<date[1] + i, date[2], date[3], 1>>]

\* round(x, 2) of RoundedDict, ties to even
Round2(x) ==
    LET a == x[1] * 100
        b == x[2]
        f == a \div b
        r == a - f * b
        n == IF 2 * r < b THEN f
             ELSE IF 2 * r > b THEN f + 1
             ELSE IF f % 2 = 0 THEN f ELSE f + 1
    IN  Rat(n, 100)

projection_undiscounted(fcf, g, discounting_rate, n) ==
    [i \in 1..n |-> RMul(fcf, RPow(RAdd(ROne, g), i))]

\* the projection loop: fcf = fcf * (1 + g) / (1 + discounting_rate), n times
RECURSIVE projection(_, _, _, _)
projection(fcf, g, discounting_rate, n) ==
    IF n = 0 THEN <<>>
    ELSE LET before == projection(fcf, g, discounting_rate, n - 1)
             prev == IF n = 1 THEN fcf ELSE before[n - 1]
         IN  Append(before, RDiv(RMul(prev, RAdd(ROne, g)),
                                 RAdd(ROne, discounting_rate)))

\* round(r, 2) of RoundedDict for a correlation r given by its sign and its
\* square: [nan, value]
RoundCorr(v) ==
    LET n == v.square[1]
        d == v.square[2]
        below(k) == (2 * k + 1) * (2 * k + 1) * d > 40000 * n
        up == CHOOSE k \in 0..100 : below(k) /\ \A j \in 0..(k - 1) : ~below(j)
        tie == (2 * up - 1) * (2 * up - 1) * d = 40000 * n
        k == IF tie /\ up % 2 = 1 THEN up - 1 ELSE up
    IN  IF v.nan THEN NaN ELSE [nan |-> FALSE, value |-> Rat(v.sign * k, 100)]

RoundMedian(v) ==
    IF v.nan THEN NaN ELSE [nan |-> FALSE, value |-> Round2(v.value)]

\* the features as RoundedDict stores them
RoundedFeatures(features) ==
    [keys |-> features.keys,
     fcf_autocorrelation |-> RoundCorr(features.fcf_autocorrelation),
     median_fcf_growth_all |-> RoundMedian(features.median_fcf_growth_all),
     median_fcf_growth_l4y |-> RoundMedian(features.median_fcf_growth_l4y)]

NoRoundedFeatures == RoundedFeatures(NoFeatures)

NoPrediction ==
    [forecast_date |-> <<>>, forecast |-> NoForecast, generated |-> FALSE,
     fcf_0 |-> 0,
     shares_outstanding |-> 0, company_value |-> RZero,
     intrinsic_value |-> RZero, intrinsic_is_nan |-> FALSE,
     features |-> NoRoundedFeatures]

\* the result dictionary of predict_fairvalue, rounded by RoundedDict, once
\* the valuation iv was merged into the response and the features were
\* computed
predict_response(a, forecast_date, fcf_0, forecast, iv, features) ==
    IF features.exc # "none" THEN [exc |-> features.exc, val |-> NoPrediction]
    ELSE [exc |-> "none",
          val |-> [forecast_date |-> IF a.forecast_given THEN <<>>
                                     ELSE strftime(forecast_date),
                   forecast |-> forecast,
                   generated |-> ~a.forecast_given,
                   fcf_0 |-> fcf_0,
                   shares_outstanding |-> iv.val.shares_outstanding,
                   company_value |-> Round2(iv.val.company_value),
                   intrinsic_value |-> Round2(iv.val.intrinsic_value),
                   intrinsic_is_nan |-> iv.val.intrinsic_is_nan,
                   features |-> RoundedFeatures(features.val)]]

\* what follows calc_intrinsic_value: with historical_features and a Stock
\* that has financials, calc_historical_features(self.financials)
predict_result(fin, a, forecast_date, fcf_0, forecast, iv) ==
    IF iv.exc # "none" THEN [exc |-> iv.exc, val |-> NoPrediction]
    ELSE predict_response(a, forecast_date, fcf_0, forecast, iv,
            IF a.historical_features /\ ~fin.none
            THEN calc_historical_features(fin)
            ELSE [exc |-> "none", val |-> NoFeatures])

predict_valuation_at_discounting_rate(fin, a, forecast_date, fcf_0, forecast) ==
    predict_result(fin, a, forecast_date, fcf_0, forecast,
                   calc_intrinsic_value(forecast.free_cashflows,
                                        ConstRates(a.discounting_rate,
                                                   Len(forecast.free_cashflows)),
                                        forecast.terminal_growth,
                                        forecast.shares_outstanding))

\* the valuation of the schedule forecast, given or generated
predict_valuation(fin, a, forecast_date, fcf_0, forecast) ==
    predict_result(fin, a, forecast_date, fcf_0, forecast,
                   calc_intrinsic_value(forecast.free_cashflows, forecast.discount_rates,
                                        forecast.terminal_growth,
                                        forecast.shares_outstanding))

\* what follows the construction of the generated ForecastTickerFinancials
predict_generated(fin, a, forecast_date, fcf_0, generated) ==
    IF generated.exc # "none" THEN [exc |-> generated.exc, val |-> NoPrediction]
    ELSE predict_valuation(fin, a, forecast_date, fcf_0, generated.obj)

\* the branch forecast_financials is None, once fetch_latest_financials has
\* returned latest: the zero-share check, the projection loop and the
\* construction of the schedule
predict_forecast(fin, lso, a, forecast_date, latest) ==
    LET fail(e) == [exc |-> e, val |-> NoPrediction]
        shares == IF a.use_historic_shares
                  THEN Last(latest.obj.shares_outstanding) ELSE lso
        fcf_0 == Last(latest.obj.free_cashflows)
    IN  IF latest.exc # "none" THEN fail(latest.exc)
        ELSE IF lso = 0 THEN fail("FairValueException")
        ELSE IF a.number_of_years > 0 /\ RIsZero(RAdd(ROne, a.discounting_rate))
        THEN fail("ZeroDivisionError")
        ELSE predict_generated(fin, a, forecast_date, fcf_0,
                ForecastTickerFinancials(
                    [year_end_dates |-> generate_future_dates(forecast_date,
                                                              a.number_of_years),
                     free_cashflows |-> projection(FromInt(fcf_0), a.growth_rate,
                                                   a.discounting_rate, a.number_of_years),
                     discount_rates |-> ConstRates(a.discounting_rate, a.number_of_years),
                     shares_outstanding |-> shares,
                     terminal_growth |-> a.terminal_growth_rate]))

\* the historical financials as of forecast_date, then the forecast
predict_latest(fin, lso, a, forecast_date) ==
    predict_forecast(fin, lso, a, forecast_date,
                     fetch_latest_financials(forecast_date, fin))

\* Stock.predict_fairvalue(...): [exc, val].  a.forecast_given = FALSE stands
\* for forecast_financials = None, a.date_given = FALSE for forecast_date =
\* None, when a.now is what datetime.now() returns.  val.forecast is the
\* schedule that was valued and val.fcf_0 the cash flow the projection
\* started from.
predict_fairvalue(fin, lso, a) ==
    IF a.forecast_given
    THEN predict_valuation(fin, a, <<>>, 0, a.forecast_financials)
    ELSE IF a.date_given /\ ~Parses(a.forecast_date)
    THEN [exc |-> "ValueError", val |-> NoPrediction]
    ELSE predict_latest(fin, lso, a,
                        IF a.date_given THEN strptime(a.forecast_date) ELSE a.now)

---------------------------------------------------------------------------
(* The forecast block of the earlier variant of predict_fairvalue          *)
(* (FairValue/_stock.py), which lets the growth rate decay.                *)

\* the loop: fcf = fcf * (1 + g) / (1 + discounting_rate); g = g * (1 - d);
\* [flows, g] after n rounds
RECURSIVE projection_with_decay(_, _, _, _, _)
projection_with_decay(fcf, g, growth_decay_rate, discounting_rate, n) ==
    IF n = 0 THEN [flows |-> <<>>, g |-> g]
    ELSE LET before == projection_with_decay(fcf, g, growth_decay_rate,
                                             discounting_rate, n - 1)
             prev == IF n = 1 THEN fcf ELSE before.flows[n - 1]
         IN  [flows |-> Append(before.flows,
                               RDiv(RMul(prev, RAdd(ROne, before.g)),
                                    RAdd(ROne, discounting_rate))),
              g |-> RMul(before.g, RSub(ROne, growth_decay_rate))]

NoSchedule ==
    [free_cashflows |-> <<>>, discount_rates |-> <<>>,
     shares_outstanding |-> 0, terminal_growth |-> RZero]

\* from "if forecast_financials is None" to the arguments handed to
\* ForecastTickerFinancials: [exc, val]
generate_forecast_with_decay(a) ==
    LET p == projection_with_decay(FromInt(a.fcf), a.growth_rate, a.growth_decay_rate,
                                   a.discounting_rate, a.number_of_years)
    IN  IF a.latest_shares_outstanding = 0
        THEN [exc |-> "FairValueException", val |-> NoSchedule]
        ELSE IF a.number_of_years > 0 /\ RIsZero(RAdd(ROne, a.discounting_rate))
        THEN [exc |-> "ZeroDivisionError", val |-> NoSchedule]
        ELSE [exc |-> "none",
              val |-> [free_cashflows |-> p.flows,
                       discount_rates |-> ConstRates(a.discounting_rate, a.number_of_years),
                       shares_outstanding |-> a.latest_shares_outstanding,
                       terminal_growth |-> RMul(p.g, RSub(ROne, a.growth_decay_rate))]]

Decays == {<<0, 1>>, <<1, 2>>, <<1, 1>>}

DecayArgs ==
    {[fcf |-> f, latest_shares_outstanding |-> l, growth_rate |-> g,
      growth_decay_rate |-> d, discounting_rate |-> r, number_of_years |-> n] :
        f \in {-3, 10}, l \in {0, 3}, g \in Growths, d \in Decays, r \in Rates,
        n \in 0..MaxYears}

CallGenerateForecastWithDecay ==
    /\ call = NoCall
    /\ ~constructed
    /\ \E a \in DecayArgs :
            LET r == generate_forecast_with_decay(a) IN
            /\ call' = [op |-> "generate_forecast_with_decay", args |-> a]
            /\ ret' = [exc |-> r.exc, val |-> r.val]
            /\ UNCHANGED <<financials, latest_shares_outstanding, constructed, state_dict, workers>>

---------------------------------------------------------------------------
(* Specification of a Stock: it is built once and then valued.             *)

\* historic series of one length n; a free_cashflows series may have its
\* own length, which the constructor does not compare
StockKwargs ==
    UNION {
      {[present |-> {"free_cashflows"}, operating_cashflows |-> <<>>,
        capital_expenditures |-> <<>>, free_cashflows |-> f,
        year_end_dates |-> d, shares_outstanding |-> s] :
          f \in UNION {CashSeries(m) : m \in Lens},
          d \in {Series(AnnualDates, n), Series(GapDates, n)},
          s \in {Series(SharesFlat, n), Series(SharesFromZero, n)}}
      \cup
      {[present |-> {"operating_cashflows", "capital_expenditures"},
        operating_cashflows |-> o, capital_expenditures |-> Series(CapexFlat, n),
        free_cashflows |-> <<>>, year_end_dates |-> d, shares_outstanding |-> s] :
          o \in CashSeries(n),
          d \in {Series(AnnualDates, n), Series(GapDates, n)},
          s \in {Series(SharesFlat, n), Series(SharesFromZero, n)}} :
      n \in Lens}

\* histories long enough for calc_historical_features to compute features
LongKwargs ==
    {[present |-> {"free_cashflows"}, operating_cashflows |-> <<>>,
      capital_expenditures |-> <<>>, free_cashflows |-> f,
      year_end_dates |-> d, shares_outstanding |-> Series(SharesFlat, MaxHistory)] :
        f \in {Series(CashUp, MaxHistory), Series(CashThroughMinusOne, MaxHistory)},
        d \in {Series(AnnualDates, MaxHistory), Series(OneGapDates, MaxHistory)}}

\* histories whose share count changes from year to year
RisingKwargs ==
    {[present |-> {"free_cashflows"}, operating_cashflows |-> <<>>,
      capital_expenditures |-> <<>>, free_cashflows |-> Series(CashUp, n),
      year_end_dates |-> Series(AnnualDates, n),
      shares_outstanding |-> Series(SharesRising, n)] : n \in 1..MaxLen}

NoKwargs ==
    [present |-> {}, operating_cashflows |-> <<>>, capital_expenditures |-> <<>>,
     free_cashflows |-> <<>>, year_end_dates |-> <<>>, shares_outstanding |-> <<>>]

StockArgs ==
    {[ticker_given |-> TRUE, financials_given |-> TRUE, historical_financials |-> h,
      shares_given |-> g, latest_shares_outstanding |-> l] :
        h \in StockKwargs, g \in BOOLEAN, l \in {0, 3}}
    \cup
    {[ticker_given |-> TRUE, financials_given |-> TRUE, historical_financials |-> h,
      shares_given |-> TRUE, latest_shares_outstanding |-> 3] : h \in LongKwargs}
    \cup
    {[ticker_given |-> TRUE, financials_given |-> TRUE, historical_financials |-> h,
      shares_given |-> g, latest_shares_outstanding |-> 3] :
        h \in RisingKwargs, g \in BOOLEAN}
    \cup
    {[ticker_given |-> t, financials_given |-> FALSE, historical_financials |-> NoKwargs,
      shares_given |-> g, latest_shares_outstanding |-> l] :
        t \in BOOLEAN, g \in BOOLEAN, l \in {0, 3}}

TerminalRates == {<<-1, 2>>, <<0, 1>>, <<1, 2>>}

\* forecast dates: before, between and after the year ends, a leap day, and
\* a day that does not exist
ForecastDates ==
    {<<2017, 6, 30, 1>>, <<2018, 12, 31, 1>>, <<2019, 6, 30, 1>>,
     <<2020, 2, 29, 1>>, <<2019, 2, 29, 1>>}

\* what datetime.now() returns
Now == <<2021, 3, 1, 0>>

\* schedules the caller built beforehand
GivenForecasts ==
    {ForecastTickerFinancials(kw).obj :
        kw \in {k \in {[year_end_dates |-> Series(AnnualDates, n),
                        free_cashflows |-> RatSeq(f), discount_rates |-> r,
                        shares_outstanding |-> 3, terminal_growth |-> RZero] :
                          n \in {MaxLen}, f \in CashSeries(MaxLen),
                          r \in {ConstRates(<<1, 2>>, MaxLen), Series(FallingRate, MaxLen)}} :
                  ForecastTickerFinancials(k).exc = "none"}}

PredictArgs ==
    {[growth_rate |-> g, terminal_growth_rate |-> tg, discounting_rate |-> r,
      number_of_years |-> n, forecast_given |-> FALSE, forecast_financials |-> NoForecast,
      date_given |-> TRUE, forecast_date |-> d, now |-> Now, use_historic_shares |-> u,
      historical_features |-> FALSE] :
        g \in Growths, tg \in TerminalRates, r \in Rates, n \in 0..MaxYears,
        d \in ForecastDates, u \in BOOLEAN}
    \cup
    {[growth_rate |-> g, terminal_growth_rate |-> tg, discounting_rate |-> r,
      number_of_years |-> n, forecast_given |-> FALSE, forecast_financials |-> NoForecast,
      date_given |-> FALSE, forecast_date |-> <<>>, now |-> Now, use_historic_shares |-> u,
      historical_features |-> FALSE] :
        g \in Growths, tg \in TerminalRates, r \in Rates, n \in 0..MaxYears,
        u \in BOOLEAN}
    \cup
    {[growth_rate |-> g, terminal_growth_rate |-> tg, discounting_rate |-> r,
      number_of_years |-> MaxYears, forecast_given |-> TRUE, forecast_financials |-> ff,
      date_given |-> FALSE, forecast_date |-> <<>>, now |-> Now, use_historic_shares |-> FALSE,
      historical_features |-> h] :
        g \in {<<0, 1>>, <<1, 2>>}, tg \in {<<0, 1>>, <<1, 2>>},
        r \in {<<1, 2>>, <<1, 1>>}, ff \in GivenForecasts, h \in BOOLEAN}
    \cup
    {[growth_rate |-> <<0, 1>>, terminal_growth_rate |-> RZero, discounting_rate |-> <<1, 2>>,
      number_of_years |-> MaxYears, forecast_given |-> FALSE, forecast_financials |-> NoForecast,
      date_given |-> g, forecast_date |-> IF g THEN <<2019, 6, 30, 1>> ELSE <<>>,
      now |-> Now, use_historic_shares |-> u, historical_features |-> TRUE] :
        g \in BOOLEAN, u \in BOOLEAN}

ConstructStock ==
    /\ ~constructed
    /\ call = NoCall
    /\ \E a \in StockArgs :
            LET r == StockInit(a) IN
            /\ r.exc = "none"
            /\ financials' = r.financials
            /\ latest_shares_outstanding' = r.latest_shares_outstanding
            /\ constructed' = TRUE
            /\ UNCHANGED <<call, ret, state_dict, workers>>

ConstructStockFails ==
    /\ ~constructed
    /\ call = NoCall
    /\ \E a \in StockArgs :
            LET r == StockInit(a) IN
            /\ r.exc # "none"
            /\ call' = [op |-> "Stock", args |-> a]
            /\ ret' = [exc |-> r.exc, val |-> <<>>]
            /\ UNCHANGED <<financials, latest_shares_outstanding, constructed, state_dict, workers>>

CallPredictFairvalue ==
    /\ constructed
    /\ call = NoCall
    /\ \E a \in PredictArgs :
            LET r == predict_fairvalue(financials, latest_shares_outstanding, a) IN
            /\ call' = [op |-> "predict_fairvalue", args |-> a]
            /\ ret' = [exc |-> r.exc, val |-> r.val]
            /\ UNCHANGED <<financials, latest_shares_outstanding, constructed, state_dict, workers>>

NextStock ==
    \/ ConstructStock
    \/ ConstructStockFails
    \/ CallPredictFairvalue
    \/ CallGenerateForecastWithDecay

SpecStock == Init /\ [][NextStock]_vars

---------------------------------------------------------------------------
(* Properties of predict_fairvalue.                                        *)

PredictCall == call.op = "predict_fairvalue"
GeneratedCall == PredictCall /\ ~call.args.forecast_given
DecayCall == call.op = "generate_forecast_with_decay"

\* forecast_date is None or a date that exists
DateUsable(a) == ~a.date_given \/ Parses(a.forecast_date)

\* C3 as stated: predict_fairvalue without forecast_financials on a Stock
\* whose latest_shares_outstanding is 0 raises FairValueException.
C3_AsStated ==
    (GeneratedCall /\ DateUsable(call.args) /\ latest_shares_outstanding = 0)
    => ret.exc = "FairValueException"

\* flow i of a schedule, flow 0 being the starting cash flow
Flow(flows, fcf0, i) == IF i = 0 THEN fcf0 ELSE flows[i]

\* fcf_i = fcf_{i-1} * (1 + g_i) / (1 + r) for i = 1..N, g_i = g * (1 - d)^(i-1),
\* stated without division
Recurrence(flows, fcf0, g, d, r, N) ==
    /\ Len(flows) = N
    /\ \A i \in 1..N :
         RMul(flows[i], RAdd(ROne, r)) =
           RMul(Flow(flows, fcf0, i - 1),
                RAdd(ROne, RMul(g, RPow(RSub(ROne, d), i - 1))))

\* fcf_i = fcf_0 / (1 + r)^i for i = 1..N
PureDiscount(flows, fcf0, r) ==
    \A i \in 1..Len(flows) : flows[i] = RDiv(fcf0, RPow(RAdd(ROne, r), i))

\* C4: the generated forecast satisfies fcf_i = fcf_{i-1} * (1 + g_i) / (1 + r)
\* for i = 1..N with g_1 = g and g_{i+1} = g_i * (1 - d) (the current
\* predict_fairvalue has no decay, d = 0); with g = 0 and d = 0,
\* fcf_i = fcf_0 / (1 + r)^i.
C4_Projection ==
    /\ (GeneratedCall /\ ret.exc = "none")
       => /\ Recurrence(ret.val.forecast.free_cashflows, FromInt(ret.val.fcf_0),
                        call.args.growth_rate, RZero, call.args.discounting_rate,
                        call.args.number_of_years)
          /\ RIsZero(call.args.growth_rate)
               => PureDiscount(ret.val.forecast.free_cashflows,
                               FromInt(ret.val.fcf_0), call.args.discounting_rate)
    /\ (DecayCall /\ ret.exc = "none")
       => /\ Recurrence(ret.val.free_cashflows, FromInt(call.args.fcf),
                        call.args.growth_rate, call.args.growth_decay_rate,
                        call.args.discounting_rate, call.args.number_of_years)
          /\ (RIsZero(call.args.growth_rate) /\ RIsZero(call.args.growth_decay_rate))
               => PureDiscount(ret.val.free_cashflows, FromInt(call.args.fcf),
                               call.args.discounting_rate)

\* a two year forecast generated with growth and a discount rate
C4_Witness ==
    /\ GeneratedCall
    /\ ret.exc = "none"
    /\ call.args.number_of_years >= 2
    /\ ~RIsZero(call.args.growth_rate)
    /\ ~RIsZero(call.args.discounting_rate)
    /\ ret.val.fcf_0 # 0

---------------------------------------------------------------------------
(* fill_dates (utils.py).                                                  *)

to_month_end_unmoved(date) == <<date[1], date[2], date[3], 0>>

\* to_month_end(date)
to_month_end(date) == <<date[1], date[2], DaysInMonth(date[1], date[2]), 0>>

\* statistics.mode: the most frequent value, the first met among equals
mode(xs) ==
    LET count(v) == Cardinality({i \in 1..Len(xs) : xs[i] = v})
        first(v) == CHOOSE i \in 1..Len(xs) : xs[i] = v /\ \A j \in 1..(i - 1) : xs[j] # v
        best == {v \in Range(xs) : \A w \in Range(xs) : count(w) <= count(v)}
    IN  CHOOSE v \in best : \A w \in best : first(v) <= first(w)

\* parsed_dates == sorted(parsed_dates)
is_chronological(parsed) ==
    \A i \in 1..(Len(parsed) - 1) : DtLe(parsed[i], parsed[i + 1])

\* the loop over range(start_year, end_year + 1), given the parsed dates
filled_dates(parsed, start_year, end_year) ==
    LET mode_month == mode([i \in 1..Len(parsed) |-> parsed[i][2]])
        years == [i \in 1..Len(parsed) |-> parsed[i][1]]
        index(y) == CHOOSE i \in 1..Len(years) :
                        years[i] = y /\ \A j \in 1..(i - 1) : years[j] # y
    IN  [k \in 1..(end_year - start_year + 1) |->
            LET year == start_year + k - 1 IN
            IF year \in Range(years)
            THEN strftime(parsed[index(year)])
            ELSE strftime(to_month_end(<<year, mode_month, 1, 0>>))]

fill_dates_short(dates) ==
    LET parsed == [i \in 1..Len(dates) |-> strptime(dates[i])] IN
    IF Len(dates) = 0 THEN [exc |-> "ValueError", val |-> <<>>]
    ELSE IF \E i \in 1..Len(dates) : ~Parses(dates[i])
    THEN [exc |-> "ValueError", val |-> <<>>]
    ELSE IF ~is_chronological(parsed) THEN [exc |-> "ValueError", val |-> <<>>]
    ELSE [exc |-> "none",
          val |-> filled_dates(parsed, parsed[1][1], Last(parsed)[1] - 1)]

\* fill_dates(dates): [exc, val]
fill_dates(dates) ==
    LET parsed == [i \in 1..Len(dates) |-> strptime(dates[i])] IN
    IF Len(dates) = 0 THEN [exc |-> "ValueError", val |-> <<>>]
    ELSE IF \E i \in 1..Len(dates) : ~Parses(dates[i])
    THEN [exc |-> "ValueError", val |-> <<>>]
    ELSE IF ~is_chronological(parsed) THEN [exc |-> "ValueError", val |-> <<>>]
    ELSE [exc |-> "none",
          val |-> filled_dates(parsed, parsed[1][1], Last(parsed)[1])]

\* date texts: padded and not, a leap day, a day that does not exist
FillDateStrs ==
    {<<2018, 1, 1, 1>>, <<2018, 1, 1, 0>>, <<2019, 2, 28, 1>>,
     <<2020, 2, 29, 1>>, <<2021, 6, 30, 1>>, <<2019, 2, 29, 1>>}

FillArgs == UNION {[1..n -> FillDateStrs] : n \in 0..MaxDates}

CallFillDates ==
    /\ call = NoCall
    /\ \E d \in FillArgs :
            LET r == fill_dates(d) IN
            /\ call' = [op |-> "fill_dates", args |-> d]
            /\ ret' = [exc |-> r.exc, val |-> r.val]
            /\ UNCHANGED <<financials, latest_shares_outstanding, constructed, state_dict, workers>>

\* the list fill_dates returned is filled once more
CallFillDatesAgain ==
    LET r == fill_dates(ret.val) IN
    /\ call.op = "fill_dates"
    /\ ret.exc = "none"
    /\ call' = [op |-> "fill_dates_again", args |-> ret.val]
    /\ ret' = [exc |-> r.exc, val |-> r.val]
    /\ UNCHANGED <<financials, latest_shares_outstanding, constructed, state_dict, workers>>

CallCheckForMissingDates ==
    /\ call = NoCall
    /\ \E d \in FillArgs :
            LET r == check_for_missing_dates(d) IN
            /\ call' = [op |-> "check_for_missing_dates", args |-> d]
            /\ ret' = [exc |-> r.exc, val |-> r.val]
            /\ UNCHANGED <<financials, latest_shares_outstanding, constructed, state_dict, workers>>

NextUtils == CallFillDates \/ CallFillDatesAgain \/ CallCheckForMissingDates

SpecUtils == Init /\ [][NextUtils]_vars

\* C10: filling a filled list changes nothing: for a non-empty list d in
\* chronological order fill_dates(fill_dates(d)) = fill_dates(d).
C10_FillIdempotent ==
    call.op = "fill_dates_again" => (ret.exc = "none" /\ ret.val = call.args)

\* a second run over a list in which the first run synthesized a year
C10_Witness ==
    /\ call.op = "fill_dates_again"
    /\ ret.exc = "none"
    /\ Len(call.args) >= 3
    /\ \E i \in 1..Len(call.args) : call.args[i] \notin FillDateStrs

FillCall == call.op = "fill_dates"
FillParsed == \A i \in 1..Len(call.args) : Parses(call.args[i])
FillChronological ==
    \A i \in 1..(Len(call.args) - 1) :
        DtLe(strptime(call.args[i]), strptime(call.args[i + 1]))
FillYears == {call.args[i][1] : i \in 1..Len(call.args)}
FillMonthCount(m) == Cardinality({i \in 1..Len(call.args) : call.args[i][2] = m})
FillModalMonths == {m \in 1..12 : \A w \in 1..12 : FillMonthCount(w) <= FillMonthCount(m)}

---------------------------------------------------------------------------
(* SEC ingestion (models/sec_ingestion.py).  A Datum is a record           *)
(* [end, filed, form, val, frame]; a data frame is the sequence of its     *)
(* rows in index order; frame tells whether the Datum carries a frame.     *)

\* df[mask]: the rows whose index satisfies keep, in index order
KeepRows(rows, keep(_)) ==
    LET idx == {i \in 1..Len(rows) : keep(i)}
    IN  [k \in 1..Cardinality(idx) |->
            rows[CHOOSE i \in idx : Cardinality({j \in idx : j <= i}) = k]]

\* df.sort_values(by=...) with a stable order: before(a, b) is the strict
\* order of the sort keys
SortRows(rows, before(_, _)) ==
    LET rank(i) == Cardinality({j \in 1..Len(rows) :
                        \/ before(rows[j], rows[i])
                        \/ ~before(rows[i], rows[j]) /\ j < i})
    IN  [k \in 1..Len(rows) |-> rows[CHOOSE i \in 1..Len(rows) : rank(i) = k - 1]]

\* df.drop_duplicates(subset=..., keep="last"): same(a, b) compares the subset
DropDuplicatesKeepLast(rows, same(_, _)) ==
    KeepRows(rows, LAMBDA i : \A j \in (i + 1)..Len(rows) : ~same(rows[i], rows[j]))

\* pd.to_datetime(text)
to_datetime(s) == strptime(s)

AnnualForms == {"10-K", "20-F", "20-F/A", "10-K/A"}

\* nearest(split_date, dates): the index of the first row holding the latest
\* date that is <= split_date, 0 for None
nearest(split_date, dates) ==
    LET valid == {i \in 1..Len(dates) : DtLe(dates[i], split_date)}
        top == {i \in valid : \A j \in valid : DtLe(dates[j], dates[i])}
    IN  IF valid = {} THEN 0
        ELSE CHOOSE i \in top : \A j \in top : i <= j

RECURSIVE ProductFrom(_, _)
\* stock_split[::-1].cumprod()[::-1] at index i
ProductFrom(ratios, i) ==
    IF i > Len(ratios) THEN 1 ELSE ratios[i] * ProductFrom(ratios, i + 1)

\* the loop over stock_split_df.iterrows(), bfill, fillna(1) and the reversed
\* cumprod: the shares rows with their stock_split and stock_split_date
\* (dated tells whether stock_split_date is set)
assign_stock_splits(shares, splits) ==
    LET ends == [i \in 1..Len(shares) |-> to_datetime(shares[i].end)]
        hits(i) == {k \in 1..Len(splits) :
                        nearest(to_datetime(splits[k].end), ends) = i}
        last_hit(i) == CHOOSE k \in hits(i) : \A m \in hits(i) : m <= k
        ratio(i) == IF hits(i) = {} THEN 1 ELSE splits[last_hit(i)].val
        later(i) == {j \in i..Len(shares) : hits(j) # {}}
        filled(i) == CHOOSE j \in later(i) : \A m \in later(i) : j <= m
        ratios == [i \in 1..Len(shares) |-> ratio(i)]
    IN  [i \in 1..Len(shares) |->
            [end |-> shares[i].end, filed |-> shares[i].filed, form |-> shares[i].form,
             val |-> shares[i].val,
             stock_split |-> ProductFrom(ratios, i),
             dated |-> later(i) # {},
             stock_split_date |-> IF later(i) = {} THEN <<>>
                                  ELSE to_datetime(splits[last_hit(filled(i))].end)]]

\* shares_outstanding_df["stock_split"] = 1; ["stock_split_date"] = None
no_stock_splits(shares) ==
    [i \in 1..Len(shares) |->
        [end |-> shares[i].end, filed |-> shares[i].filed, form |-> shares[i].form,
         val |-> shares[i].val, stock_split |-> 1, dated |-> FALSE,
         stock_split_date |-> <<>>]]

\* the filter after the cumprod: rows for a period before the split that
\* were filed after it are dropped
filed_after_split(row) ==
    /\ row.dated
    /\ DtLt(to_datetime(row.end), row.stock_split_date)
    /\ DtLt(row.stock_split_date, to_datetime(row.filed))

check_for_foreign_currencies_by_key(sec) ==
    \/ "USD" \notin sec.ocf_units
    \/ sec.capex_present /\ "USD" \notin sec.capex_units

\* check_for_foreign_currencies(sec_filing)
check_for_foreign_currencies(sec) ==
    \/ "USD" \notin sec.ocf_units
    \/ Cardinality(sec.ocf_units) > 1
    \/ /\ sec.capex_present
       /\ \/ "USD" \notin sec.capex_units
          \/ Cardinality(sec.capex_units) > 1

\* the stock split block: [exc, rows], the rows carrying stock_split and
\* stock_split_date
stock_split_block(sec) ==
    LET framed == SelectSeq(sec.splits, LAMBDA d : d.frame)
        splits == SortRows(framed,
                      LAMBDA a, b : DtLt(to_datetime(a.end), to_datetime(b.end)))
        all_before ==
            \A k \in 1..Len(splits) : \A j \in 1..Len(sec.shares) :
                DtLt(to_datetime(splits[k].end), to_datetime(sec.shares[j].end))
    IN  IF ~sec.split_present
        THEN [exc |-> "none", rows |-> no_stock_splits(sec.shares)]
        ELSE IF "pure" \notin sec.split_units
        THEN [exc |-> "ParseException", rows |-> <<>>]
        ELSE IF Len(splits) = 0 \/ all_before
        THEN [exc |-> "none", rows |-> no_stock_splits(sec.shares)]
        ELSE [exc |-> "none",
              rows |-> SelectSeq(assign_stock_splits(sec.shares, splits),
                                 LAMBDA row : ~filed_after_split(row))]

\* the same without sort_values: the last record of a period in the order
\* the filing lists them
dedup_shares_outstanding_in_raw_order(rows) ==
    LET annual == SelectSeq(rows, LAMBDA r : r.form \in AnnualForms)
        kept == DropDuplicatesKeepLast(annual,
                    LAMBDA a, b : to_datetime(a.end) = to_datetime(b.end))
    IN  [i \in 1..Len(kept) |->
            [end |-> kept[i].end, filed |-> kept[i].filed, form |-> "10-K",
             reported |-> kept[i].val, stock_split |-> kept[i].stock_split,
             shares_outstanding |-> kept[i].val * kept[i].stock_split]]

\* the annual filter, sort_values(by=[end_parsed, filed_parsed]),
\* drop_duplicates(subset=[end_parsed], keep="last"), the multiplication by
\* stock_split and form = "10-K"; reported keeps the value as filed
dedup_shares_outstanding(rows) ==
    LET annual == SelectSeq(rows, LAMBDA r : r.form \in AnnualForms)
        sorted == SortRows(annual,
                    LAMBDA a, b :
                        \/ DtLt(to_datetime(a.end), to_datetime(b.end))
                        \/ /\ to_datetime(a.end) = to_datetime(b.end)
                           /\ DtLt(to_datetime(a.filed), to_datetime(b.filed)))
        kept == DropDuplicatesKeepLast(sorted,
                    LAMBDA a, b : to_datetime(a.end) = to_datetime(b.end))
    IN  [i \in 1..Len(kept) |->
            [end |-> kept[i].end, filed |-> kept[i].filed, form |-> "10-K",
             reported |-> kept[i].val, stock_split |-> kept[i].stock_split,
             shares_outstanding |-> kept[i].val * kept[i].stock_split]]

\* operating_cashflows_df.merge(shares_outstanding_df, on=["end", "form"])
merge_shares(ocf, shares_df) ==
    LET hit(d) == {j \in 1..Len(shares_df) :
                      shares_df[j].end = d.end /\ shares_df[j].form = d.form}
        left == SelectSeq(ocf, LAMBDA d : hit(d) # {})
    IN  [i \in 1..Len(left) |->
            [end |-> left[i].end, filed |-> left[i].filed, form |-> left[i].form,
             net_cashflow_ops |-> left[i].val,
             shares_outstanding |->
                 shares_df[CHOOSE j \in hit(left[i]) : TRUE].shares_outstanding]]

\* USGaap.convert_to_non_negative_float: max(0.0, val) on every Datum
convert_to_non_negative_float(capex) ==
    [i \in 1..Len(capex) |->
        [end |-> capex[i].end, filed |-> capex[i].filed, form |-> capex[i].form,
         val |-> IF capex[i].val < 0 THEN 0 ELSE capex[i].val,
         frame |-> capex[i].frame]]

RECURSIVE merge_capital_expenditure(_, _, _)
\* financials_df.merge(capital_expenditures_df, on=["filed", "end", "form"],
\* how="left") and fillna(0.0), rows from..Len(df); 0.0 in every row when
\* there is no capital expenditure metric
merge_capital_expenditure(df, sec, from) ==
    IF from > Len(df) THEN <<>>
    ELSE
    LET row == df[from]
        capex == convert_to_non_negative_float(sec.capex)
        with(v) == [end |-> row.end, filed |-> row.filed, form |-> row.form,
                    net_cashflow_ops |-> row.net_cashflow_ops,
                    shares_outstanding |-> row.shares_outstanding,
                    capital_expenditure |-> v]
        hits == SelectSeq(capex, LAMBDA c : c.filed = row.filed /\ c.end = row.end
                                            /\ c.form = row.form)
        mine == IF ~sec.capex_present \/ Len(hits) = 0 THEN <<with(0)>>
                ELSE [k \in 1..Len(hits) |-> with(hits[k].val)]
    IN  mine \o merge_capital_expenditure(df, sec, from + 1)

\* search_ticker(submission) raises ParseException
search_ticker_fails(sec) ==
    sec.tickers # sec.exchanges \/ sec.tickers = 0 \/ sec.exchanges = 0

\* secfiling_to_financials(sec_filing): [exc, df, shares]; shares is the
\* local shares_outstanding_df the merge reads
secfiling_to_financials(sec) ==
    LET fail(e) == [exc |-> e, df |-> <<>>, shares |-> <<>>]
        block == stock_split_block(sec)
        shares_df == dedup_shares_outstanding(block.rows)
    IN  IF ~sec.state_domestic \/ check_for_foreign_currencies(sec)
        THEN fail("ParseException")
        ELSE IF "shares" \notin sec.shares_units THEN fail("ParseException")
        ELSE IF block.exc # "none" THEN fail(block.exc)
        ELSE IF Len(shares_df) = 0 THEN fail("IndexError")
        ELSE IF search_ticker_fails(sec) THEN fail("ParseException")
        ELSE [exc |-> "none",
              df |-> merge_capital_expenditure(merge_shares(sec.ocf, shares_df), sec, 1),
              shares |-> shares_df]

\* cfacts_df_to_dict(df): the keyword arguments of TickerFinancials
cfacts_df_to_dict(df) ==
    [present |-> {"operating_cashflows", "capital_expenditures", "free_cashflows"},
     operating_cashflows |-> [i \in 1..Len(df) |-> df[i].net_cashflow_ops],
     capital_expenditures |-> [i \in 1..Len(df) |-> df[i].capital_expenditure],
     free_cashflows |-> [i \in 1..Len(df) |-> df[i].free_cashflows],
     year_end_dates |-> [i \in 1..Len(df) |-> df[i].end],
     shares_outstanding |-> [i \in 1..Len(df) |-> df[i].shares_outstanding]]

\* the same with the operating cashflow taken as the free cash flow
annual_rows_without_capex(df) ==
    LET rows == [i \in 1..Len(df) |->
                    [end |-> df[i].end, filed |-> df[i].filed, form |-> df[i].form,
                     net_cashflow_ops |-> df[i].net_cashflow_ops,
                     capital_expenditure |-> df[i].capital_expenditure,
                     free_cashflows |-> df[i].net_cashflow_ops,
                     shares_outstanding |-> Abs(df[i].shares_outstanding)]]
        annual == SelectSeq(rows, LAMBDA r : r.form \in AnnualForms)
        by_filing == DropDuplicatesKeepLast(annual,
                        LAMBDA a, b : /\ to_datetime(a.end) = to_datetime(b.end)
                                      /\ to_datetime(a.filed) = to_datetime(b.filed))
    IN  DropDuplicatesKeepLast(by_filing,
            LAMBDA a, b : to_datetime(a.end)[1] = to_datetime(b.end)[1])

\* the body of secfiling_to_annual_financials after secfiling_to_financials
\* returned df: free cash flow, abs(), the annual filter and the two
\* drop_duplicates(keep="last")
annual_rows(df) ==
    LET rows == [i \in 1..Len(df) |->
                    [end |-> df[i].end, filed |-> df[i].filed, form |-> df[i].form,
                     net_cashflow_ops |-> df[i].net_cashflow_ops,
                     capital_expenditure |-> df[i].capital_expenditure,
                     free_cashflows |-> df[i].net_cashflow_ops - df[i].capital_expenditure,
                     shares_outstanding |-> Abs(df[i].shares_outstanding)]]
        annual == SelectSeq(rows, LAMBDA r : r.form \in AnnualForms)
        by_filing == DropDuplicatesKeepLast(annual,
                        LAMBDA a, b : /\ to_datetime(a.end) = to_datetime(b.end)
                                      /\ to_datetime(a.filed) = to_datetime(b.filed))
    IN  DropDuplicatesKeepLast(by_filing,
            LAMBDA a, b : to_datetime(a.end)[1] = to_datetime(b.end)[1])

\* what follows secfiling_to_financials in secfiling_to_annual_financials
annual_financials(fin) ==
    IF fin.exc # "none"
    THEN [exc |-> fin.exc, merged |-> <<>>, df |-> <<>>, shares |-> <<>>,
          financials |-> NoFinancials]
    ELSE LET made == TickerFinancials(cfacts_df_to_dict(annual_rows(fin.df)))
         IN  [exc |-> made.exc,
              merged |-> IF made.exc = "none" THEN fin.df ELSE <<>>,
              df |-> IF made.exc = "none" THEN annual_rows(fin.df) ELSE <<>>,
              shares |-> IF made.exc = "none" THEN fin.shares ELSE <<>>,
              financials |-> made.obj]

\* secfiling_to_annual_financials(sec_filing): [exc, merged, df, shares,
\* financials]; merged is what secfiling_to_financials returned, df the
\* de-duplicated frame and shares the aligned shares_outstanding_df
secfiling_to_annual_financials(sec) == annual_financials(secfiling_to_financials(sec))

---------------------------------------------------------------------------
(* Filings handed to secfiling_to_annual_financials.                       *)

YearEnd(y) == <<y, 12, 31, 1>>
MidYear(y) == <<y, 6, 30, 1>>

\* a Datum for the period ending at end, by the way it was filed: the
\* annual report, its amendment, the next year's annual report repeating
\* the period, and a quarterly report
FilingKinds == {"annual", "amended", "repeated", "quarterly"}

Filed(end, kind) ==
    IF kind = "amended" THEN <<end[1] + 1, 3, 15, 1>>
    ELSE IF kind = "repeated" THEN <<end[1] + 2, 2, 15, 1>>
    ELSE <<end[1] + 1, 2, 15, 1>>

FormOf(kind) ==
    IF kind = "amended" THEN "10-K/A"
    ELSE IF kind = "quarterly" THEN "10-Q" ELSE "10-K"

KindNumber(kind) ==
    IF kind = "annual" THEN 0
    ELSE IF kind = "amended" THEN 1
    ELSE IF kind = "repeated" THEN 2 ELSE 3

Datum(end, kind, base) ==
    [end |-> end, filed |-> Filed(end, kind), form |-> FormOf(kind),
     val |-> base + 10 * (end[1] - 2018) + KindNumber(kind) + (IF end[2] = 6 THEN 5 ELSE 0),
     frame |-> TRUE]

ShareData ==
    {Datum(YearEnd(2018), k, 100) : k \in {"annual", "amended", "repeated"}}
    \cup {Datum(YearEnd(2019), k, 100) : k \in {"annual", "repeated", "quarterly"}}
    \cup {Datum(YearEnd(2020), k, 100) : k \in {"annual", "amended"}}

CashflowData ==
    {Datum(MidYear(2018), k, 50) : k \in {"annual", "repeated"}}
    \cup {Datum(YearEnd(2018), k, 50) : k \in FilingKinds}
    \cup {Datum(YearEnd(2019), k, 50) : k \in {"annual", "repeated"}}

SplitDatum(date, ratio, frame) ==
    [end |-> date, filed |-> <<date[1], 8, 15, 1>>, form |-> "10-Q", val |-> ratio,
     frame |-> frame]

\* no split event, one between two year ends (framed or not), one before
\* every filing, one on a year end, two events in either order
SplitSeries ==
    {<<SplitDatum(MidYear(2019), 2, TRUE)>>,
     <<SplitDatum(MidYear(2019), 2, FALSE)>>,
     <<SplitDatum(MidYear(2018), 2, TRUE)>>,
     <<SplitDatum(YearEnd(2019), 2, TRUE)>>,
     <<SplitDatum(MidYear(2019), 2, TRUE), SplitDatum(MidYear(2020), 3, TRUE)>>,
     <<SplitDatum(MidYear(2020), 3, TRUE), SplitDatum(MidYear(2019), 2, TRUE)>>}

Rows(data) == UNION {[1..n -> data] : n \in 1..MaxRows}

AnnualReports(base, ends) ==
    [i \in 1..Len(ends) |-> Datum(ends[i], "annual", base)]

\* a domestic filer in US dollars with an annual report a year and no
\* capital expenditure or split metric
PlainFiling ==
    [state_domestic |-> TRUE, tickers |-> 1, exchanges |-> 1,
     ocf_units |-> {"USD"},
     ocf |-> AnnualReports(50, <<YearEnd(2018), YearEnd(2019), YearEnd(2020)>>),
     capex_present |-> FALSE, capex_units |-> {"USD"}, capex |-> <<>>,
     shares_units |-> {"shares"},
     shares |-> AnnualReports(100, <<YearEnd(2018), YearEnd(2019), YearEnd(2020)>>),
     split_present |-> FALSE, split_units |-> {"pure"}, splits |-> <<>>]

\* share records in any order, with and without split events
SplitFilings ==
    {[PlainFiling EXCEPT !.shares = sh] : sh \in Rows(ShareData)}
    \cup
    {[PlainFiling EXCEPT !.shares = sh, !.split_present = TRUE, !.splits = sp] :
        sh \in Rows(ShareData), sp \in SplitSeries}

\* operating cashflow records in any order, two period ends in one year
CashflowFilings ==
    {[PlainFiling EXCEPT
        !.ocf = o,
        !.shares = AnnualReports(100, <<MidYear(2018), YearEnd(2018), YearEnd(2019)>>)] :
        o \in Rows(CashflowData)}

CapexData ==
    {Datum(YearEnd(y), k, b) : y \in {2018, 2019}, k \in {"annual", "amended"},
                              b \in {-30, 7}}

CapexFilings ==
    {[PlainFiling EXCEPT !.capex_present = TRUE, !.capex = c] :
        c \in UNION {[1..n -> CapexData] : n \in 1..2}}

UnitKeys == {{"USD"}, {"EUR"}, {"USD", "EUR"}}

\* jurisdictions, currencies, unit keys and ticker lists
UnitFilings ==
    {[PlainFiling EXCEPT
        !.state_domestic = d, !.ocf_units = ou,
        !.capex_present = cp, !.capex_units = cu,
        !.capex = IF cp THEN <<Datum(YearEnd(2018), "annual", 7)>> ELSE <<>>,
        !.shares_units = su, !.split_present = sp, !.split_units = pu,
        !.splits = IF sp THEN <<SplitDatum(MidYear(2019), 2, TRUE)>> ELSE <<>>,
        !.tickers = t[1], !.exchanges = t[2]] :
        d \in BOOLEAN, ou \in UnitKeys, cp \in BOOLEAN, cu \in UnitKeys,
        su \in {{"shares"}, {"USD"}}, sp \in BOOLEAN, pu \in {{"pure"}, {"USD"}},
        t \in {<<1, 1>>, <<0, 0>>, <<2, 1>>}}

SecFilings == SplitFilings \cup CashflowFilings \cup CapexFilings \cup UnitFilings

CallSecfilingToAnnualFinancials ==
    /\ call = NoCall
    /\ \E sec \in SecFilings :
            LET r == secfiling_to_annual_financials(sec) IN
            /\ call' = [op |-> "secfiling_to_annual_financials", args |-> sec]
            /\ ret' = [exc |-> r.exc,
                       val |-> [merged |-> r.merged, df |-> r.df, shares |-> r.shares,
                                financials |-> r.financials]]
            /\ UNCHANGED <<financials, latest_shares_outstanding, constructed, state_dict, workers>>

NextSec == CallSecfilingToAnnualFinancials

SpecSec == Init /\ [][NextSec]_vars

SecCall == call.op = "secfiling_to_annual_financials"

\* the share records of the call are in the order of period end, then filed
SharesInOrder ==
    \A i \in 1..(Len(call.args.shares) - 1) :
        LET a == call.args.shares[i]
            b == call.args.shares[i + 1]
        IN  \/ DtLt(to_datetime(a.end), to_datetime(b.end))
            \/ /\ to_datetime(a.end) = to_datetime(b.end)
               /\ DtLe(to_datetime(a.filed), to_datetime(b.filed))

\* one split event of ratio 2 dated between two period ends of the series
OneSplitBetweenFilings ==
    /\ SecCall
    /\ call.args.split_present
    /\ Len(call.args.splits) = 1
    /\ call.args.splits[1].frame
    /\ call.args.splits[1].val = 2
    /\ \E i, j \in 1..Len(call.args.shares) :
            /\ DtLt(to_datetime(call.args.shares[i].end), to_datetime(call.args.splits[1].end))
            /\ DtLt(to_datetime(call.args.splits[1].end), to_datetime(call.args.shares[j].end))

EarlierFiling(a, b) ==
    \/ DtLt(to_datetime(a.end), to_datetime(b.end))
    \/ /\ to_datetime(a.end) = to_datetime(b.end)
       /\ DtLt(to_datetime(a.filed), to_datetime(b.filed))

SameYear(a, b) == to_datetime(a.end)[1] = to_datetime(b.end)[1]

\* C13 as stated: whatever the order of the input records, the reconciled
\* frame holds exactly one row per fiscal year (so exactly one per period
\* end and filed date), and it is the row with the latest period end of
\* the year and, for that period end, the latest filed date.
C13_AsStated ==
    (SecCall /\ ret.exc = "none") =>
        /\ \A i, j \in 1..Len(ret.val.df) :
                SameYear(ret.val.df[i], ret.val.df[j]) => i = j
        /\ \A m \in 1..Len(ret.val.merged) :
                \E i \in 1..Len(ret.val.df) :
                    /\ SameYear(ret.val.df[i], ret.val.merged[m])
                    /\ ~EarlierFiling(ret.val.df[i], ret.val.merged[m])

\* the lookup table flags the state of incorporation as foreign
FlaggedForeign == ~call.args.state_domestic

\* a units dictionary without "USD" or with more than one currency key
ForeignUnits(units) == "USD" \notin units \/ Cardinality(units) > 1

---------------------------------------------------------------------------
(* Specification of the two module functions latest_index and              *)
(* fetch_latest_financials called on their own: a TickerFinancials is      *)
(* built and held, then the function is called on it.                      *)

DescendingDates(i) == <<2021 - i, 12, 31, 1>>

LatestDateSeries ==
    UNION {{Series(AnnualDates, n), Series(GapDates, n), Series(DescendingDates, n)} :
            n \in Lens}

\* reference datetimes: before, on (at midnight and later that day),
\* between and after the year ends
ReferenceTimes ==
    {<<2017, 6, 30, 0>>, <<2018, 6, 30, 0>>, <<2018, 12, 31, 0>>, <<2018, 12, 31, 1>>,
     <<2019, 6, 30, 1>>, <<2019, 12, 31, 0>>, <<2020, 6, 30, 0>>, <<2021, 1, 1, 0>>}

\* what the caller hands over as date: a text, a date object or None
FetchDates ==
    {[kind |-> "str", date |-> d] : d \in ForecastDates \cup {<<2019, 12, 31, 1>>}}
    \cup {[kind |-> "date", date |-> d] :
            d \in {<<2017, 6, 30, 1>>, <<2018, 12, 31, 1>>, <<2020, 2, 29, 1>>}}
    \cup {[kind |-> "none", date |-> <<>>]}

HistoryKwargs ==
    StockKwargs
    \cup {[present |-> {"free_cashflows", "operating_cashflows"},
           operating_cashflows |-> Series(CashDown, n),
           capital_expenditures |-> <<>>, free_cashflows |-> Series(CashUp, n),
           year_end_dates |-> d, shares_outstanding |-> Series(SharesFlat, n)] :
             n \in Lens, d \in LatestDateSeries}

CallLatestIndex ==
    /\ call = NoCall
    /\ financials.none
    /\ \E t \in ReferenceTimes, d \in LatestDateSeries :
            LET r == latest_index(t, d) IN
            /\ call' = [op |-> "latest_index", args |-> [date |-> t, year_end_dates |-> d]]
            /\ ret' = [exc |-> r.exc, val |-> r.n]
            /\ UNCHANGED <<financials, latest_shares_outstanding, constructed, state_dict, workers>>

\* the caller builds the TickerFinancials it will pass
HoldTickerFinancials ==
    /\ call = NoCall
    /\ financials.none
    /\ \E kw \in HistoryKwargs :
            /\ TickerFinancials(kw).exc = "none"
            /\ financials' = TickerFinancials(kw).obj
            /\ UNCHANGED <<latest_shares_outstanding, constructed, call, ret, state_dict, workers>>

\* fetch_latest_financials(date, financials); financials may be None
CallFetchLatestFinancials ==
    /\ call = NoCall
    /\ \E a \in FetchDates :
            LET r == fetch_latest_financials_as(a.kind, a.date, financials) IN
            /\ call' = [op |-> "fetch_latest_financials", args |-> a]
            /\ ret' = [exc |-> r.exc, val |-> r.obj]
            /\ UNCHANGED <<financials, latest_shares_outstanding, constructed, state_dict, workers>>

NextLatest ==
    \/ CallLatestIndex
    \/ HoldTickerFinancials
    \/ CallFetchLatestFinancials

SpecLatest == Init /\ [][NextLatest]_vars

LatestCall == call.op = "latest_index"
FetchCall == call.op = "fetch_latest_financials"

\* the year ends of dates that are not later than the datetime t
YearEndsUpTo(t, dates) ==
    {i \in 1..Len(dates) : DtLe(strptime(dates[i]), t)}

Ascending(dates) ==
    \A i, j \in 1..Len(dates) : i < j => DtLt(strptime(dates[i]), strptime(dates[j]))

\* C15: for a non-empty ascending list of year-end dates and a datetime t,
\* latest_index returns the number of year-end dates <= t, and raises
\* FairValueException when t precedes the first one; on an empty list it
\* raises FairValueException.
C15_LatestIndex ==
    LatestCall =>
      LET dates == call.args.year_end_dates
          n == Cardinality(YearEndsUpTo(call.args.date, dates))
      IN  /\ Len(dates) = 0 => ret.exc = "FairValueException"
          /\ (Len(dates) > 0 /\ Ascending(dates)) =>
                IF n = 0 THEN ret.exc = "FairValueException"
                ELSE ret.exc = "none" /\ ret.val = n

\* t is the midnight of the first of two year ends: one year end counts
C15_Witness ==
    /\ LatestCall
    /\ Len(call.args.year_end_dates) = 2
    /\ Ascending(call.args.year_end_dates)
    /\ call.args.date = strptime(call.args.year_end_dates[1])
    /\ ret.exc = "none"
    /\ ret.val = 1

\* the series a TickerFinancials holds
HeldSeries(fin) ==
    {"year_end_dates", "shares_outstanding"} \cup fin.present

\* C16 as stated: the object fetch_latest_financials returns holds exactly
\* the first n entries of every series of the input, n being the number of
\* year ends on or before the end of the given day (n > 0), and no series
\* the input lacks.
C16_AsStated ==
    (/\ FetchCall
     /\ ~financials.none
     /\ call.args.kind # "none"
     /\ Parses(call.args.date)
     /\ YearEndsUpTo(date_to_datetime(call.args.date), financials.year_end_dates) # {})
    =>
      LET n == Cardinality(YearEndsUpTo(date_to_datetime(call.args.date),
                                        financials.year_end_dates))
      IN  /\ ret.exc = "none"
          /\ ret.val.present = financials.present
          /\ \A f \in HeldSeries(financials) :
                /\ Len(ret.val[f]) = n
                /\ \A i \in 1..n : ret.val[f][i] = financials[f][i]

\* the same on inputs whose series all have one length and whose dates ascend
C16_OnRegularInput ==
    (Cardinality(TFPresentLens(financials)) = 1 /\ Ascending(financials.year_end_dates))
        => C16_AsStated


---------------------------------------------------------------------------
(* Properties of check_for_missing_dates.                                  *)

MissingCall == call.op = "check_for_missing_dates"

YearsIn(dates) == {strptime(dates[i])[1] : i \in 1..Len(dates)}

\* the years lying strictly between two years of the set and not in it
YearsSkipped(years) ==
    UNION {(lo + 1)..(hi - 1) : lo \in years, hi \in years} \ years

\* C20: check_for_missing_dates returns in ascending order exactly the
\* years strictly between the least and the greatest year of the input in
\* which no input date falls, the empty list for empty input; the result is
\* a function of the set of years alone, whatever the order of the dates
\* and however often a date occurs.
C20_MissingYears ==
    (MissingCall /\ \A i \in 1..Len(call.args) : Parses(call.args[i])) =>
      /\ ret.exc = "none"
      /\ \A i, j \in 1..Len(ret.val) : i < j => ret.val[i] < ret.val[j]
      /\ Range(ret.val) = YearsSkipped(YearsIn(call.args))
      /\ Len(call.args) = 0 => ret.val = <<>>

\* dates out of order, one year twice, two years skipped
C20_Witness ==
    /\ MissingCall
    /\ Len(call.args) = 3
    /\ ~is_chronological([i \in 1..3 |-> strptime(call.args[i])])
    /\ Cardinality(YearsIn(call.args)) = 2
    /\ ret.exc = "none"
    /\ Len(ret.val) = 2

---------------------------------------------------------------------------
(* Specification of calc_historical_features called on a TickerFinancials. *)

HistoryLens == 0..MaxHistory

FeatureDateSeries ==
    UNION {{Series(AnnualDates, n), Series(OneGapDates, n), Series(DescendingDates, n)} :
            n \in HistoryLens}

FeatureCashSeries ==
    UNION {{Series(CashUp, n), Series(CashDown, n), Series(CashFlat, n),
            Series(CashThroughMinusOne, n)} : n \in HistoryLens}

FeatureKwargs ==
    {[present |-> {"free_cashflows"}, operating_cashflows |-> <<>>,
      capital_expenditures |-> <<>>, free_cashflows |-> f,
      year_end_dates |-> d, shares_outstanding |-> Series(SharesFlat, Len(d))] :
        f \in FeatureCashSeries, d \in FeatureDateSeries}

FeatureFinancials ==
    {TickerFinancials(kw).obj : kw \in FeatureKwargs} \cup {NoFinancials}

CallCalcHistoricalFeatures ==
    /\ call = NoCall
    /\ \E fin \in FeatureFinancials :
            LET r == calc_historical_features(fin) IN
            /\ call' = [op |-> "calc_historical_features", args |-> fin]
            /\ ret' = [exc |-> r.exc, val |-> r.val]
            /\ UNCHANGED <<financials, latest_shares_outstanding, constructed, state_dict, workers>>

NextFeatures == CallCalcHistoricalFeatures

SpecFeatures == Init /\ [][NextFeatures]_vars

FeaturesCall == call.op = "calc_historical_features" /\ ~call.args.none

\* C19: with fewer than 4 annual observations, or with a calendar year
\* missing between the first and the last year, calc_historical_features
\* returns the empty feature set and raises nothing; whenever it returns
\* features there are at least 4 observations and no year is missing, and
\* the features are the autocorrelation and the two median growths.
C19_EmptyFeatures ==
    FeaturesCall =>
      LET dates == call.args.year_end_dates
          short == Len(dates) < 4
          gap == YearsSkipped(YearsIn(dates)) # {}
      IN  /\ (short \/ gap) => (ret.exc = "none" /\ ret.val.keys = {})
          /\ (ret.exc = "none" /\ ret.val.keys # {}) =>
                /\ ~short
                /\ ~gap
                /\ ret.val.keys = {"fcf_autocorrelation", "median_fcf_growth_all",
                                   "median_fcf_growth_l4y"}

\* three observations of consecutive years: nothing is computed, though the
\* cash flows would make the growth computation fail
C19_Witness ==
    /\ FeaturesCall
    /\ Len(call.args.year_end_dates) = 3
    /\ YearsSkipped(YearsIn(call.args.year_end_dates)) = {}
    /\ call.args.free_cashflows = Series(CashThroughMinusOne, 3)
    /\ ret.exc = "none"
    /\ ret.val.keys = {}

\* four observations of consecutive years: the three features are returned
C19_FeaturesReturned ==
    /\ FeaturesCall
    /\ Len(call.args.year_end_dates) = 4
    /\ ret.exc = "none"
    /\ ret.val.keys # {}
    /\ ~ret.val.fcf_autocorrelation.nan


---------------------------------------------------------------------------
(* Properties of predict_fairvalue with a schedule the caller supplies.    *)

GivenCall == PredictCall /\ call.args.forecast_given

\* the valuation of the schedule by itself
ScheduleValue(ff) ==
    calc_intrinsic_value(ff.free_cashflows, ff.discount_rates,
                         ff.terminal_growth, ff.shares_outstanding)

\* C17: with an explicit forecast_financials, the company_value and the
\* intrinsic_value predict_fairvalue returns are those of that schedule
\* (its free_cashflows, discount_rates, terminal_growth and
\* shares_outstanding), rounded; growth_rate, discounting_rate,
\* terminal_growth_rate, the historical financials, present or not, and
\* latest_shares_outstanding have no part in them.
C17_ScheduleOnly ==
    (GivenCall /\ ret.exc = "none") =>
      LET v == ScheduleValue(call.args.forecast_financials) IN
      /\ v.exc = "none"
      /\ ret.val.forecast = call.args.forecast_financials
      /\ ret.val.company_value = Round2(v.val.company_value)
      /\ ret.val.intrinsic_value = Round2(v.val.intrinsic_value)
      /\ ret.val.intrinsic_is_nan = v.val.intrinsic_is_nan
      /\ ret.val.shares_outstanding = call.args.forecast_financials.shares_outstanding

\* a Stock without historical financials and with no shares outstanding
\* values a schedule whose rates differ from every rate argument
C17_Witness ==
    /\ GivenCall
    /\ financials.none
    /\ latest_shares_outstanding = 0
    /\ \A i \in 1..Len(call.args.forecast_financials.discount_rates) :
            call.args.forecast_financials.discount_rates[i] # call.args.discounting_rate
    /\ call.args.terminal_growth_rate # call.args.forecast_financials.terminal_growth
    /\ ~RIsZero(call.args.growth_rate)
    /\ ret.exc = "none"
    /\ ~RIsZero(ret.val.company_value)

\* C18 as stated: predict_fairvalue without forecast_financials on a Stock
\* whose historical financials are None or empty raises FairValueException.
C18_AsStated ==
    (/\ PredictCall
     /\ ~call.args.forecast_given
     /\ (financials.none \/ Len(financials.year_end_dates) = 0))
    => ret.exc = "FairValueException"

\* the same for a Stock that has historical financials, with no entry, and
\* a forecast date that parses
C18_OnEmptyHistory ==
    (/\ PredictCall
     /\ ~call.args.forecast_given
     /\ DateUsable(call.args)
     /\ ~financials.none
     /\ Len(financials.free_cashflows) = 0)
    => ret.exc = "FairValueException"


---------------------------------------------------------------------------
(* Properties of the valuation of a generated forecast.                    *)

\* the schedule predict_fairvalue valued, as calc_intrinsic_value takes it
ValuedSchedule ==
    [free_cashflows |-> ret.val.forecast.free_cashflows,
     discount |-> ret.val.forecast.discount_rates,
     terminal_growth |-> ret.val.forecast.terminal_growth,
     shares_outstanding |-> ret.val.forecast.shares_outstanding]

\* fcf_0 * (1 + g)^i / (1 + r)^k
Compounded(fcf0, g, r, i, k) ==
    RDiv(RMul(FromInt(fcf0), RPow(RAdd(ROne, g), i)), RPow(RAdd(ROne, r), k))

\* C22 as stated: in the generated-forecast path the amount year i
\* contributes to company_value is max(fcf_0 * (1 + g)^i / (1 + r)^i, 0),
\* the projected cash flow discounted by (1 + r)^i once.
C22_AsStated ==
    (GeneratedCall /\ ret.exc = "none") =>
      \A i \in 1..call.args.number_of_years :
        PV(ValuedSchedule, i) =
            RMax(Compounded(ret.val.fcf_0, call.args.growth_rate,
                            call.args.discounting_rate, i, i), RZero)

\* what the code computes: the projection divides by (1 + r) every year and
\* the valuation divides year i by (1 + r)^i again
C22_DiscountedTwice ==
    (GeneratedCall /\ ret.exc = "none") =>
      \A i \in 1..call.args.number_of_years :
        PV(ValuedSchedule, i) =
            RMax(Compounded(ret.val.fcf_0, call.args.growth_rate,
                            call.args.discounting_rate, i, 2 * i), RZero)


---------------------------------------------------------------------------
(* Properties of calc_intrinsic_value on schedules with negative years.    *)

\* the cash flows with every negative year replaced by 0
Floored(free_cashflows) ==
    [i \in 1..Len(free_cashflows) |-> RMax(free_cashflows[i], RZero)]

\* C23 as stated: for a valid schedule, replacing the negative cash flows,
\* the one of the final year included, by 0 leaves company_value unchanged,
\* and company_value is not negative.
C23_AsStated ==
    (CalcCall /\ CalcValidForecast(call.args) /\ call.args.shares_outstanding > 0) =>
      LET floored == calc_intrinsic_value(Floored(call.args.free_cashflows),
                                          call.args.discount,
                                          call.args.terminal_growth,
                                          call.args.shares_outstanding)
      IN  /\ ret.exc = "none"
          /\ floored.exc = "none"
          /\ ret.val.company_value = floored.val.company_value
          /\ RLe(RZero, ret.val.company_value)

\* the same for schedules whose final year is not negative
C23_BeforeFinalYear ==
    (/\ CalcCall
     /\ Len(call.args.free_cashflows) >= 1
     /\ ~RLt(Last(call.args.free_cashflows), RZero)) => C23_AsStated


---------------------------------------------------------------------------
(* Properties of the terminal growth of a generated forecast.              *)

\* g * (1 - d)^k
Decayed(g, d, k) == RMul(g, RPow(RSub(ROne, d), k))

\* C24 as stated: in the generated-forecast path the terminal growth of the
\* schedule is g * (1 - d)^(N + 1) for growth g, decay d and horizon N, which
\* is g where there is no decay.
C24_AsStated ==
    /\ (GeneratedCall /\ ret.exc = "none") =>
          ret.val.forecast.terminal_growth =
              Decayed(call.args.growth_rate, RZero, call.args.number_of_years + 1)
    /\ (DecayCall /\ ret.exc = "none") =>
          ret.val.terminal_growth =
              Decayed(call.args.growth_rate, call.args.growth_decay_rate,
                      call.args.number_of_years + 1)

\* the loop with growth_decay_rate alone
C24_WithDecay ==
    (DecayCall /\ ret.exc = "none") =>
        ret.val.terminal_growth =
            Decayed(call.args.growth_rate, call.args.growth_decay_rate,
                    call.args.number_of_years + 1)

\* predict_fairvalue takes the terminal growth from its own argument
C24_FromArgument ==
    (GeneratedCall /\ ret.exc = "none") =>
        ret.val.forecast.terminal_growth = call.args.terminal_growth_rate


---------------------------------------------------------------------------
(* Properties of predict_fairvalue as of a forecast date.                  *)

\* the end of the forecast day
ForecastTime(a) ==
    date_to_datetime(IF a.date_given THEN a.forecast_date ELSE a.now)

\* the constructor arguments with the history cut after its first n years
CutAfter(sa, n) ==
    [sa EXCEPT !.historical_financials =
        [present |-> @.present,
         operating_cashflows |-> Prefix(@.operating_cashflows, n),
         capital_expenditures |-> Prefix(@.capital_expenditures, n),
         free_cashflows |-> Prefix(@.free_cashflows, n),
         year_end_dates |-> Prefix(@.year_end_dates, n),
         shares_outstanding |-> Prefix(@.shares_outstanding, n)]]

\* the valuation the same call returns on the Stock built from sa
ValuedAlike(sa, a) ==
    LET stock == StockInit(sa)
        r == predict_fairvalue(stock.financials, stock.latest_shares_outstanding, a)
    IN  /\ stock.exc = "none"
        /\ r.exc = "none"
        /\ r.val.company_value = ret.val.company_value
        /\ r.val.intrinsic_value = ret.val.intrinsic_value
        /\ r.val.intrinsic_is_nan = ret.val.intrinsic_is_nan

\* the constructor calls that built the Stock at hand
BuiltBy(sa) ==
    /\ sa.financials_given
    /\ sa.historical_financials.year_end_dates = financials.year_end_dates
    /\ StockInit(sa).exc = "none"
    /\ StockInit(sa).financials = financials
    /\ StockInit(sa).latest_shares_outstanding = latest_shares_outstanding

\* C30 as stated: in the generated-forecast path with forecast date t, fcf_0
\* and, with use_historic_shares, the share count are those of the latest
\* year whose year end is on or before t, and the company_value and the
\* intrinsic_value returned are those of the Stock built without the years
\* after t.
C30_AsStated ==
    (GeneratedCall /\ ret.exc = "none") =>
      LET n == Cardinality(YearEndsUpTo(ForecastTime(call.args),
                                        financials.year_end_dates))
      IN  /\ n >= 1
          /\ n <= Len(financials.free_cashflows)
          /\ ret.val.fcf_0 = financials.free_cashflows[n]
          /\ call.args.use_historic_shares =>
                ret.val.forecast.shares_outstanding = financials.shares_outstanding[n]
          /\ \A sa \in StockArgs :
                BuiltBy(sa) => ValuedAlike(CutAfter(sa, n), call.args)

\* the same when the share count comes from the history as of t or was
\* handed to the constructor, on histories whose series have one length
C30_WithoutLatestShares ==
    (/\ PredictCall
     /\ Cardinality(TFPresentLens(financials)) = 1
     /\ \/ call.args.use_historic_shares
        \/ \A sa \in StockArgs : BuiltBy(sa) => sa.shares_given)
    => C30_AsStated


---------------------------------------------------------------------------
(* Properties of the split adjustment of the shares outstanding.           *)

\* the split events the adjustment reads: the framed records of the metric
SplitEvents ==
    IF call.args.split_present
    THEN {call.args.splits[k] : k \in {j \in 1..Len(call.args.splits) :
                                            call.args.splits[j].frame}}
    ELSE {}

\* the record is for a period that ended before the split and was filed
\* after it
RestatedAcross(row, split) ==
    /\ DtLt(to_datetime(row.end), to_datetime(split.end))
    /\ DtLt(to_datetime(split.end), to_datetime(row.filed))

\* C25 as stated: no shares record that survives the split adjustment has
\* its period end before a split date and its filed date after that split
\* date, for every split event.
C25_AsStated ==
    (SecCall /\ ret.exc = "none") =>
        \A k \in 1..Len(ret.val.shares) : \A s \in SplitEvents :
            ~RestatedAcross(ret.val.shares[k], s)

\* the same for one split event and share records in order, one per period
C25_OnePerPeriod ==
    (/\ SecCall
     /\ Cardinality(SplitEvents) <= 1
     /\ SharesInOrder
     /\ \A i, j \in 1..Len(call.args.shares) :
            call.args.shares[i].end = call.args.shares[j].end => i = j)
    => C25_AsStated


\* the product of the ratios of the split events dated on or after the
\* period end of the record
RECURSIVE RatioProduct(_)
RatioProduct(events) ==
    IF events = {} THEN 1
    ELSE LET s == CHOOSE x \in events : TRUE
         IN  s.val * RatioProduct(events \ {s})

SplitsFrom(row) ==
    {s \in SplitEvents : DtLe(to_datetime(row.end), to_datetime(s.end))}

\* C26 as stated: every surviving shares record is its reported count times
\* the product of the ratios of all split events dated on or after its
\* period end.
C26_AsStated ==
    (SecCall /\ ret.exc = "none") =>
        \A k \in 1..Len(ret.val.shares) :
            ret.val.shares[k].shares_outstanding =
                ret.val.shares[k].reported * RatioProduct(SplitsFrom(ret.val.shares[k]))

\* the same when the records are in order, one per period end, and each
\* split event has a period end of its own right before it
C26_OneSplitPerPeriod ==
    (/\ SecCall
     /\ SharesInOrder
     /\ \A i, j \in 1..Len(call.args.shares) :
            call.args.shares[i].end = call.args.shares[j].end => i = j
     /\ \A s, t \in SplitEvents :
            s # t => \E i \in 1..Len(call.args.shares) :
                        LET e == to_datetime(call.args.shares[i].end) IN
                        \/ DtLt(to_datetime(s.end), e) /\ DtLe(e, to_datetime(t.end))
                        \/ DtLt(to_datetime(t.end), e) /\ DtLe(e, to_datetime(s.end)))
    => C26_AsStated


---------------------------------------------------------------------------
(* Properties of the de-duplication of the shares outstanding.             *)

\* the share records that pass the split block, as the call received them
SharesAfterSplits == stock_split_block(call.args).rows

\* C27: the shares series after the split step holds records of annual
\* forms only, one per period end, and for each period end of a surviving
\* annual record it is the one with the latest filed date, in whatever
\* order the raw records came.
C27_LatestFiledPerPeriod ==
    (SecCall /\ ret.exc = "none") =>
        /\ \A k \in 1..Len(ret.val.shares) :
                \E i \in 1..Len(SharesAfterSplits) :
                    LET raw == SharesAfterSplits[i] IN
                    /\ raw.form \in AnnualForms
                    /\ raw.end = ret.val.shares[k].end
                    /\ raw.filed = ret.val.shares[k].filed
                    /\ raw.val = ret.val.shares[k].reported
        /\ \A k, m \in 1..Len(ret.val.shares) :
                ret.val.shares[k].end = ret.val.shares[m].end => k = m
        /\ \A i \in 1..Len(SharesAfterSplits) :
                LET raw == SharesAfterSplits[i] IN
                raw.form \in AnnualForms =>
                    \E k \in 1..Len(ret.val.shares) :
                        /\ ret.val.shares[k].end = raw.end
                        /\ DtLe(to_datetime(raw.filed),
                                to_datetime(ret.val.shares[k].filed))

\* three records of one period out of the order of filing, and a quarterly
\* record beside them
C27_Witness ==
    /\ SecCall
    /\ ret.exc = "none"
    /\ ~SharesInOrder
    /\ \E i \in 1..Len(call.args.shares) : call.args.shares[i].form \notin AnnualForms
    /\ \E i, j \in 1..Len(call.args.shares) :
            /\ i < j
            /\ call.args.shares[i].end = call.args.shares[j].end
            /\ DtLt(to_datetime(call.args.shares[j].filed),
                    to_datetime(call.args.shares[i].filed))
            /\ \E k \in 1..Len(ret.val.shares) :
                    /\ ret.val.shares[k].end = call.args.shares[i].end
                    /\ ret.val.shares[k].filed = call.args.shares[i].filed


---------------------------------------------------------------------------
(* Properties of the alignment of the shares with the operating cashflows. *)

\* the operating cashflow record d has a row in the frame that
\* secfiling_to_financials returns, carrying the split-adjusted count of
\* its period
AlignedRow(d) ==
    \A k \in 1..Len(ret.val.shares) :
        ret.val.shares[k].end = d.end =>
            \E m \in 1..Len(ret.val.merged) :
                /\ ret.val.merged[m].end = d.end
                /\ ret.val.merged[m].filed = d.filed
                /\ ret.val.merged[m].form = d.form
                /\ ret.val.merged[m].net_cashflow_ops = d.val
                /\ ret.val.merged[m].shares_outstanding =
                        ret.val.shares[k].shares_outstanding

\* C28: every operating cashflow record of an annual form whose period end
\* has a surviving shares record has a row in the aligned output with that
\* period's split-adjusted share count.
C28_AsStated ==
    (SecCall /\ ret.exc = "none") =>
        \A i \in 1..Len(call.args.ocf) :
            call.args.ocf[i].form \in AnnualForms => AlignedRow(call.args.ocf[i])

\* what the merge on ["end", "form"] gives after form = "10-K": the rows of
\* the operating cashflow records filed on form 10-K, and no others
C28_OnTenK ==
    (SecCall /\ ret.exc = "none") =>
        /\ \A i \in 1..Len(call.args.ocf) :
                call.args.ocf[i].form = "10-K" => AlignedRow(call.args.ocf[i])
        /\ \A m \in 1..Len(ret.val.merged) : ret.val.merged[m].form = "10-K"


---------------------------------------------------------------------------
(* Properties of the free cash flow of the reconciled series.              *)

\* the capital expenditure records reported for the filing, period and
\* form of a row
CapexFor(row) ==
    IF ~call.args.capex_present THEN <<>>
    ELSE SelectSeq(call.args.capex,
                   LAMBDA c : /\ c.filed = row.filed
                              /\ c.end = row.end
                              /\ c.form = row.form)

\* max(capex, 0)
NonNegative(v) == IF v < 0 THEN 0 ELSE v

\* C29: every row of the reconciled annual series has free cash flow =
\* operating cashflow - max(capex, 0) for the capital expenditure reported
\* for the same filed date, period end and form, 0.0 when there is none;
\* no capital expenditure of the series is negative.
C29_FreeCashflow ==
    (SecCall /\ ret.exc = "none") =>
        /\ \A k \in 1..Len(ret.val.df) :
            LET row == ret.val.df[k]
                capex == CapexFor(row)
            IN  /\ row.capital_expenditure >= 0
                /\ row.free_cashflows = row.net_cashflow_ops - row.capital_expenditure
                /\ IF Len(capex) = 0
                   THEN row.capital_expenditure = 0
                   ELSE \E c \in 1..Len(capex) :
                            row.capital_expenditure = NonNegative(capex[c].val)
        /\ ret.val.financials.capital_expenditures =
                [k \in 1..Len(ret.val.df) |-> ret.val.df[k].capital_expenditure]
        /\ ret.val.financials.free_cashflows =
                [k \in 1..Len(ret.val.df) |-> ret.val.df[k].free_cashflows]

\* a reconciled series with a negative capital expenditure record taken as
\* 0.0, a positive one subtracted, and a row without a matching record
C29_Witness ==
    /\ SecCall
    /\ ret.exc = "none"
    /\ \E k \in 1..Len(ret.val.df) :
            /\ Len(CapexFor(ret.val.df[k])) > 0
            /\ \A c \in 1..Len(CapexFor(ret.val.df[k])) : CapexFor(ret.val.df[k])[c].val < 0
            /\ ret.val.df[k].free_cashflows = ret.val.df[k].net_cashflow_ops
    /\ \E k \in 1..Len(ret.val.df) :
            /\ Len(CapexFor(ret.val.df[k])) > 0
            /\ ret.val.df[k].capital_expenditure > 0
    /\ \E k \in 1..Len(ret.val.df) :
            /\ Len(CapexFor(ret.val.df[k])) = 0
            /\ call.args.capex_present


---------------------------------------------------------------------------
(* A bulk run: one task per company, each building a Stock from the        *)
(* company's filing and valuing it.  The tasks run in any order and        *)
(* interleave between their steps; state_dict is the one module global     *)
(* they all read.                                                          *)

\* Number of companies of a bulk run.
NumCompanies == 2

Companies == 1..NumCompanies

\* the tables state_dict can hold after the load
StateTables == [StateNames -> BOOLEAN]

\* a read that also drops the entry from the table
lookup_state_dict_and_pop(table, description) ==
    IF description \notin DOMAIN table
    THEN [exc |-> "KeyError", val |-> FALSE, table |-> table]
    ELSE [exc |-> "none", val |-> table[description],
          table |-> [s \in (DOMAIN table) \ {description} |-> table[s]]]

\* state_dict[sec_filing.submissions.stateOfIncorporationDescription]:
\* [exc, val, table], table being state_dict after the read
lookup_state_dict(table, description) ==
    IF description \notin DOMAIN table
    THEN [exc |-> "KeyError", val |-> FALSE, table |-> table]
    ELSE [exc |-> "none", val |-> table[description], table |-> table]

\* self.financials = sec_filing.to_annual_financials() and
\* self.latest_shares_outstanding = self.financials.shares_outstanding[-1],
\* made being what to_annual_financials gave
stock_from_annual_financials(made) ==
    IF made.exc # "none"
    THEN [exc |-> made.exc, financials |-> NoFinancials,
          latest_shares_outstanding |-> 0]
    ELSE IF Len(made.financials.shares_outstanding) = 0
    THEN [exc |-> "IndexError", financials |-> NoFinancials,
          latest_shares_outstanding |-> 0]
    ELSE [exc |-> "none", financials |-> made.financials,
          latest_shares_outstanding |-> Last(made.financials.shares_outstanding)]

\* Stock.__init__ with sec_filing set and latest_shares_outstanding = None,
\* is_domestic being what the lookup of the state of incorporation gave:
\* [exc, financials, latest_shares_outstanding]
StockInitFromSecFiling(filing, is_domestic) ==
    IF filing.tickers = 0 \/ filing.exchanges = 0
    THEN [exc |-> "ValueError", financials |-> NoFinancials,
          latest_shares_outstanding |-> 0]
    ELSE stock_from_annual_financials(
            secfiling_to_annual_financials(
                [filing EXCEPT !.state_domestic = is_domestic]))

\* the valuation every company gets
BulkArgs ==
    [growth_rate |-> <<0, 1>>, terminal_growth_rate |-> RZero,
     discounting_rate |-> <<1, 2>>, number_of_years |-> MaxYears,
     forecast_given |-> FALSE, forecast_financials |-> NoForecast,
     date_given |-> FALSE, forecast_date |-> <<>>, now |-> Now,
     use_historic_shares |-> FALSE, historical_features |-> FALSE]

\* a filing without a split, one with a split between two year ends and
\* one with capital expenditures, each with a state of incorporation that
\* may miss in the table
BulkFilings ==
    {PlainFiling,
     [PlainFiling EXCEPT !.split_present = TRUE,
                         !.splits = <<SplitDatum(MidYear(2019), 2, TRUE)>>],
     [PlainFiling EXCEPT !.capex_present = TRUE,
                         !.capex = <<Datum(YearEnd(2019), "annual", 7)>>]}

BulkCompanies ==
    {[filing |-> f, stateOfIncorporationDescription |-> d] :
        f \in BulkFilings, d \in StateNames \cup {"Atlantis"}}

NoStock == [financials |-> NoFinancials, latest_shares_outstanding |-> 0]

\* a task before its first step
NewTask(company) ==
    [pc |-> "start", company |-> company, is_domestic |-> FALSE,
     stock |-> NoStock, result |-> NoRet]

InitWorkers ==
    /\ InitStock
    /\ call = NoCall
    /\ ret = NoRet
    /\ state_dict \in StateTables
    /\ workers \in {[c \in Companies |-> NewTask(pick[c])] :
                        pick \in [Companies -> BulkCompanies]}

\* the task after the read r of the table
looked_up(task, r) ==
    IF r.exc # "none"
    THEN [task EXCEPT !.pc = "done", !.result = [exc |-> r.exc, val |-> <<>>]]
    ELSE [task EXCEPT !.pc = "looked_up", !.is_domestic = r.val]

\* the task after Stock(sec_filing = ...) gave r
reconciled(task, r) ==
    IF r.exc # "none"
    THEN [task EXCEPT !.pc = "done", !.result = [exc |-> r.exc, val |-> <<>>]]
    ELSE [task EXCEPT !.pc = "reconciled",
                      !.stock = [financials |-> r.financials,
                                 latest_shares_outstanding |->
                                     r.latest_shares_outstanding]]

\* the task after predict_fairvalue gave r
valued(task, r) ==
    [task EXCEPT !.pc = "done", !.result = [exc |-> r.exc, val |-> r.val]]

\* secfiling_to_financials reads the table
LookupState(c) ==
    /\ workers[c].pc = "start"
    /\ state_dict' = lookup_state_dict(state_dict,
                        workers[c].company.stateOfIncorporationDescription).table
    /\ workers' = [workers EXCEPT ![c] =
            looked_up(@, lookup_state_dict(state_dict,
                            @.company.stateOfIncorporationDescription))]
    /\ UNCHANGED <<financials, latest_shares_outstanding, constructed, call, ret>>

\* the rest of Stock(sec_filing = ...): the reconciliation of the filing
Reconcile(c) ==
    /\ workers[c].pc = "looked_up"
    /\ workers' = [workers EXCEPT ![c] =
            reconciled(@, StockInitFromSecFiling(@.company.filing, @.is_domestic))]
    /\ UNCHANGED <<financials, latest_shares_outstanding, constructed, call, ret,
                   state_dict>>

\* stock.predict_fairvalue(...)
Value(c) ==
    /\ workers[c].pc = "reconciled"
    /\ workers' = [workers EXCEPT ![c] =
            valued(@, predict_fairvalue(@.stock.financials,
                                        @.stock.latest_shares_outstanding,
                                        BulkArgs))]
    /\ UNCHANGED <<financials, latest_shares_outstanding, constructed, call, ret,
                   state_dict>>

NextWorkers ==
    \/ \E c \in Companies : LookupState(c)
    \/ \E c \in Companies : Reconcile(c)
    \/ \E c \in Companies : Value(c)

SpecWorkers == InitWorkers /\ [][NextWorkers]_vars

---------------------------------------------------------------------------
(* Properties of the bulk run.                                             *)

\* the result of a company processed alone with the table as loaded
ProcessedAlone(table, company) ==
    LET looked == lookup_state_dict(table, company.stateOfIncorporationDescription)
        built == StockInitFromSecFiling(company.filing, looked.val)
        priced == predict_fairvalue(built.financials, built.latest_shares_outstanding,
                                    BulkArgs)
    IN  IF looked.exc # "none" THEN [exc |-> looked.exc, val |-> <<>>]
        ELSE IF built.exc # "none" THEN [exc |-> built.exc, val |-> <<>>]
        ELSE [exc |-> priced.exc, val |-> priced.val]

\* every finished task holds the result of its company processed alone
ResultsAsAlone ==
    \A c \in DOMAIN workers :
        workers[c].pc = "done" =>
            workers[c].result = ProcessedAlone(state_dict, workers[c].company)

\* C21: whatever the order and interleaving of the per-company tasks, each
\* company's result is the one it gets when processed alone, and no step
\* changes the table of states of incorporation after the load.
C21_Independent == []ResultsAsAlone /\ [][state_dict' = state_dict]_vars

\* one company is valued while the task of a different company is between
\* its steps
C21_Witness ==
    \E c, d \in DOMAIN workers :
        /\ workers[c].pc = "done"
        /\ workers[c].result.exc = "none"
        /\ workers[d].pc = "reconciled"
        /\ workers[c].company # workers[d].company
        /\ workers[d].company.stateOfIncorporationDescription = "DE"
        /\ \E e \in DOMAIN workers :
                workers[e].company.stateOfIncorporationDescription # "DE"

====
